---------------------------- MODULE Spec2Model ----------------------------
(***************************************************************************)
(* A model of the Hyperion runtime's core data structures:                 *)
(*                                                                         *)
(*   - LockFreeRingBuffer (include/core/LockFreeRingBuffer.hpp): the SPSC  *)
(*     queue, one action per load, store and slot access of push, pop and  *)
(*     peek, one producer and one consumer interleaved arbitrarily;        *)
(*   - SlabAllocator (include/memory/SlabAllocator.hpp): the boundary-tag  *)
(*     heap, its memory modelled word by word, and its Spinlock;           *)
(*   - MemoryManager (src/mm/MemoryManager.cpp): the ghost arena, its      *)
(*     pages committed on demand by the fault handler.                     *)
(***************************************************************************)
EXTENDS Integers, Sequences, FiniteSets, TLC

(***************************************************************************)
(* Bit arithmetic on naturals, as the code's & computes it.                *)
(***************************************************************************)
RECURSIVE BitAnd(_, _)
BitAnd(a, b) ==
    IF a = 0 \/ b = 0 THEN 0
    ELSE (a % 2) * (b % 2) + 2 * BitAnd(a \div 2, b \div 2)

(***************************************************************************)
(*                      PART 1: LockFreeRingBuffer                         *)
(***************************************************************************)

\* template parameter Capacity (a power of two, static_assert line 24)
Capacity == 4

\* number of push calls the producer makes; it pushes the values 1, 2, ...
MaxPush == 9

\* the default-constructed T held by a slot never written
DefaultT == 0

\* std::nullopt of pop and nullptr of peek
None == 0

VARIABLES
    m_head,      \* std::atomic<size_t> m_head (consumer index)
    m_tail,      \* std::atomic<size_t> m_tail (producer index)
    m_buffer,    \* T m_buffer[Capacity]
    p_pc,        \* producer's position inside push
    p_item,      \* push's argument
    p_tail,      \* push's local current_tail
    p_head,      \* push's local current_head
    p_ret,       \* the producer's last completed push: "ok" (true), "full" (false)
    c_pc,        \* consumer's position inside pop or peek
    c_op,        \* the consumer operation in progress or last completed
    c_head,      \* pop's / peek's local current_head
    c_tail,      \* pop's / peek's local current_tail
    c_item,      \* pop's local item
    c_ret,       \* value of the consumer's last completed operation (None: empty)
    c_prev,      \* value of the non-null peek that directly preceded, else None
    nextval,     \* the next value the producer will push
    pushed,      \* history: values accepted by successful pushes, in order
    popped,      \* history: values returned by successful pops, in order
    sc_pos,      \* scenario monitor: operations of Scenario completed, -1 when left
    sc_res       \* scenario monitor: their results

ringVars == <<m_head, m_tail, m_buffer, p_pc, p_item, p_tail, p_head, p_ret,
              c_pc, c_op, c_head, c_tail, c_item, c_ret, c_prev,
              nextval, pushed, popped, sc_pos, sc_res>>

\* the state of the SlabAllocator of PART 2
VARIABLES
    s_base,      \* char* m_base, as an address
    s_total,     \* size_t m_total_size
    s_off,       \* uint64_t m_base_offset
    s_head,      \* uint64_t m_free_list_head_offset
    s_first,     \* uint64_t m_first_block_offset
    s_mem,       \* the region's words
    s_wild,      \* a call accessed memory outside the region's defined words
    s_live,      \* payload offsets returned by Allocate and not freed since
    s_req,       \* monitor: the live allocations, [p: the offset returned,
                 \* n: the size asked for]
    s_last,      \* the last call: [op, n, ret, same: it left the heap as it was]
    s_calls,     \* the number of calls made
    s_round,     \* monitor: the run of Allocate / Free pairs in progress
    s_mid        \* monitor: the scenario of freeing and reusing a middle block

slabVars == <<s_base, s_total, s_off, s_head, s_first, s_mem, s_wild, s_live,
              s_req, s_last, s_calls, s_round, s_mid>>

\* the state of the allocator's Spinlock and of the threads calling it
VARIABLES
    l_flag,      \* std::atomic_flag Spinlock::flag (TRUE: set)
    l_pc,        \* each thread's position in its Allocate or Free call
    l_call       \* each thread's call in progress: [op, arg]

lockVars == <<l_flag, l_pc, l_call>>

\* the state of the MemoryManager (the ghost arena), of the kernel objects it
\* uses and of the threads that touch the arena
VARIABLES
    m_base_addr,       \* void* m_base_addr
    m_running,         \* std::atomic<bool> m_running
    m_fault_count,     \* std::atomic<size_t> m_fault_count
    m_resident_pages,  \* std::atomic<size_t> m_resident_pages
    g_maps,            \* the kernel's mappings: per base address, whether it
                       \* is mapped, each page's access and each word's value
    g_disp,            \* the disposition of SIGSEGV and of SIGBUS
    g_sig,             \* the signal the platform raises for an invalid access
    g_proc,            \* "alive", "crashed" (killed by a signal) or "exited"
    g_worker,          \* the analysis thread has been started
    g_pc,              \* each thread's position
    g_op,              \* each thread's memory access in progress
    g_ret,             \* each thread's last completed call and its result
    g_calls            \* the number of calls made

arenaVars == <<m_base_addr, m_running, m_fault_count, m_resident_pages,
               g_maps, g_disp, g_sig, g_proc, g_worker, g_pc, g_op, g_ret,
               g_calls>>

\* the running program (src/main.cpp and src/core/ProcessingUnit.cpp)
VARIABLES
    pu_running,     \* ProcessingUnit::m_running (ProcessingUnit.hpp line 37)
    g_running,      \* main.cpp's g_running (line 14)
    u_pc,           \* where the main thread is: "boot" (main before Run),
                    \* "main", "ui", "clip" (the fiber that has the thread),
                    \* "join" (~ProcessingUnit), "exit" (inside exit)
    ui_done,        \* UI_Fiber_Func has returned
    ui_seen,        \* the doc_count Update read last, -1 before the first
    ghost_offset,   \* Update's static ghost_offset (line 99)
    q_len,          \* the documents in m_input_queue
    w_pc,           \* the worker: "none", "loop" (AnalysisWorker's while),
                    \* "doc" (inside ProcessDocument), "done", "joined"
    w_off,          \* ProcessDocument's current_offset (line 191)
    w_docs          \* the documents the worker has appended

procVars == <<pu_running, g_running, u_pc, ui_done, ui_seen, ghost_offset,
              q_len, w_pc, w_off, w_docs>>

\* the fiber scheduler (src/kernel/Scheduler.cpp) and the thread it runs on
VARIABLES
    fibers,         \* Scheduler::fibers: the records, fiber id i at i + 1
    current_fiber,  \* Scheduler::current_fiber: a fiber's id, NullFiber
    current_idx,    \* Scheduler::current_idx
    stacks,         \* the words each stack holds below its top, in push order
    frames,         \* the locals living on each stack: S_Entry's func and
                    \* the running closure's loop count
    cpu_sp,         \* the stack pointer register
    cpu_r12,        \* the callee-saved register that carries task_ptr
    cpu_pc,         \* the code the thread is in: "main", "run", "S_Entry",
                    \* "entry", "tramp", "exited", "wild"
    tasks,          \* the closures on the heap: how often each was invoked
                    \* and deleted, the fiber it was made for
    trace,          \* the vector the closures append to
    susp_sp         \* the stack pointer each fiber had when it was suspended
                    \* last (kept for the properties)

schedVars == <<fibers, current_fiber, current_idx, stacks, frames, cpu_sp,
               cpu_r12, cpu_pc, tasks, trace, susp_sp>>

vars == <<ringVars, slabVars, lockVars, arenaVars, procVars, schedVars>>

\* an index that advances by two (a faulty variant, to test the properties)
NextIndexSkips(i) == BitAnd(i + 2, Capacity - 1)

\* (current + 1) & (Capacity - 1)
NextIndex(i) == BitAnd(i + 1, Capacity - 1)

\* full tests that never fire, and that fire one slot early (faulty variants)
IsFullNever(next_tail, current_head) == FALSE
IsFullEarly(next_tail, current_head) ==
    next_tail = current_head \/ NextIndex(next_tail) = current_head

\* a full test that misses the wrap to slot 0 (a faulty variant)
IsFullNoWrap(next_tail, current_head) ==
    next_tail = current_head /\ next_tail # 0

\* push: if (next_tail == current_head) return false
IsFull(next_tail, current_head) == next_tail = current_head

\* an empty test that never fires (a faulty variant)
IsEmptyNever(current_head, current_tail) == FALSE

\* pop / peek: if (current_head == current_tail) return nullopt / nullptr
IsEmpty(current_head, current_tail) == current_head = current_tail

\* the slot before the head (a faulty variant)
FrontSlotBehind(current_head) == BitAnd(current_head + Capacity - 1, Capacity - 1)

\* pop: T item = m_buffer[current_head];  peek: return &m_buffer[current_head]
FrontSlot(current_head) == current_head

(***************************************************************************)
(* The concrete scenario of the specification, as a pattern of calls made  *)
(* one after the other: "P" a push of the next value, "O" a pop.           *)
(***************************************************************************)
Scenario ==
    <<"P", "P", "P", "O", "P", "P", "P", "O", "O", "O",
      "P", "P", "P", "O", "O", "O", "O", "O", "O">>

\* The monitor at the start of an operation of kind k: the run stays on the
\* scenario only if no other operation is in progress and k is its next call.
ScStart(k, otherIdle) ==
    IF sc_pos >= 0 /\ sc_pos < Len(Scenario) /\ otherIdle
       /\ Scenario[sc_pos + 1] = k
    THEN /\ sc_pos' = sc_pos
         /\ sc_res' = sc_res
    ELSE /\ sc_pos' = -1
         /\ sc_res' = <<>>

\* The monitor at the return of an operation with result r.
ScDone(r) ==
    IF sc_pos >= 0
    THEN /\ sc_pos' = sc_pos + 1
         /\ sc_res' = Append(sc_res, r)
    ELSE UNCHANGED <<sc_pos, sc_res>>

RingInit ==
    /\ m_head = 0
    /\ m_tail = 0
    /\ m_buffer = [i \in 0..(Capacity - 1) |-> DefaultT]
    /\ p_pc = "idle"
    /\ p_item = 0
    /\ p_tail = 0
    /\ p_head = 0
    /\ p_ret = "none"
    /\ c_pc = "idle"
    /\ c_op = "none"
    /\ c_head = 0
    /\ c_tail = 0
    /\ c_item = None
    /\ c_ret = None
    /\ c_prev = None
    /\ nextval = 1
    /\ pushed = <<>>
    /\ popped = <<>>
    /\ sc_pos = 0
    /\ sc_res = <<>>

(* ------------------------------- push --------------------------------- *)

\* line 43: current_tail = m_tail.load(relaxed)
PushLoadTail ==
    /\ p_pc = "idle"
    /\ nextval <= MaxPush
    /\ p_item' = nextval
    /\ nextval' = nextval + 1
    /\ p_tail' = m_tail
    /\ p_pc' = "load_head"
    /\ ScStart("P", c_pc = "idle")
    /\ UNCHANGED <<m_head, m_tail, m_buffer, p_head, p_ret, c_pc, c_op, c_head,
                   c_tail, c_item, c_ret, c_prev, pushed, popped>>
    /\ UNCHANGED <<slabVars, lockVars, arenaVars, procVars, schedVars>>

\* line 47: current_head = m_head.load(acquire)
PushLoadHead ==
    /\ p_pc = "load_head"
    /\ p_head' = m_head
    /\ p_pc' = "check"
    /\ UNCHANGED <<m_head, m_tail, m_buffer, p_item, p_tail, p_ret, c_pc, c_op,
                   c_head, c_tail, c_item, c_ret, c_prev, nextval, pushed,
                   popped, sc_pos, sc_res>>
    /\ UNCHANGED <<slabVars, lockVars, arenaVars, procVars, schedVars>>

\* lines 49-51: full, return false
PushFull ==
    /\ p_pc = "check"
    /\ IsFull(NextIndex(p_tail), p_head)
    /\ p_ret' = "full"
    /\ p_pc' = "idle"
    /\ ScDone(0)
    /\ UNCHANGED <<m_head, m_tail, m_buffer, p_item, p_tail, p_head, c_pc, c_op,
                   c_head, c_tail, c_item, c_ret, c_prev, nextval, pushed,
                   popped>>
    /\ UNCHANGED <<slabVars, lockVars, arenaVars, procVars, schedVars>>

\* line 53: m_buffer[current_tail] = item
PushWriteSlot ==
    /\ p_pc = "check"
    /\ ~IsFull(NextIndex(p_tail), p_head)
    /\ m_buffer' = [m_buffer EXCEPT ![p_tail] = p_item]
    /\ p_pc' = "store_tail"
    /\ UNCHANGED <<m_head, m_tail, p_item, p_tail, p_head, p_ret, c_pc, c_op,
                   c_head, c_tail, c_item, c_ret, c_prev, nextval, pushed,
                   popped, sc_pos, sc_res>>
    /\ UNCHANGED <<slabVars, lockVars, arenaVars, procVars, schedVars>>

\* lines 56-57: m_tail.store(next_tail, release); return true
PushStoreTail ==
    /\ p_pc = "store_tail"
    /\ m_tail' = NextIndex(p_tail)
    /\ p_ret' = "ok"
    /\ pushed' = Append(pushed, p_item)
    /\ p_pc' = "idle"
    /\ ScDone(1)
    /\ UNCHANGED <<m_head, m_buffer, p_item, p_tail, p_head, c_pc, c_op, c_head,
                   c_tail, c_item, c_ret, c_prev, nextval, popped>>
    /\ UNCHANGED <<slabVars, lockVars, arenaVars, procVars, schedVars>>

(* -------------------------------- pop --------------------------------- *)

\* line 67: current_head = m_head.load(relaxed)
PopLoadHead ==
    /\ c_pc = "idle"
    /\ c_op' = "pop"
    /\ c_head' = m_head
    /\ c_pc' = "load_tail"
    /\ c_prev' = IF c_op = "peek" THEN c_ret ELSE None
    /\ ScStart("O", p_pc = "idle")
    /\ UNCHANGED <<m_head, m_tail, m_buffer, p_pc, p_item, p_tail, p_head, p_ret,
                   c_tail, c_item, c_ret, nextval, pushed, popped>>
    /\ UNCHANGED <<slabVars, lockVars, arenaVars, procVars, schedVars>>

\* line 70: current_tail = m_tail.load(acquire)
PopLoadTail ==
    /\ c_pc = "load_tail"
    /\ c_op = "pop"
    /\ c_tail' = m_tail
    /\ c_pc' = "check"
    /\ UNCHANGED <<m_head, m_tail, m_buffer, p_pc, p_item, p_tail, p_head, p_ret,
                   c_op, c_head, c_item, c_ret, c_prev, nextval, pushed, popped,
                   sc_pos, sc_res>>
    /\ UNCHANGED <<slabVars, lockVars, arenaVars, procVars, schedVars>>

\* lines 72-74: empty, return nullopt
PopEmpty ==
    /\ c_pc = "check"
    /\ c_op = "pop"
    /\ IsEmpty(c_head, c_tail)
    /\ c_ret' = None
    /\ c_pc' = "idle"
    /\ ScDone(None)
    /\ UNCHANGED <<m_head, m_tail, m_buffer, p_pc, p_item, p_tail, p_head, p_ret,
                   c_op, c_head, c_tail, c_item, c_prev, nextval, pushed, popped>>
    /\ UNCHANGED <<slabVars, lockVars, arenaVars, procVars, schedVars>>

\* line 76: T item = m_buffer[current_head]
PopReadSlot ==
    /\ c_pc = "check"
    /\ c_op = "pop"
    /\ ~IsEmpty(c_head, c_tail)
    /\ c_item' = m_buffer[FrontSlot(c_head)]
    /\ c_pc' = "store_head"
    /\ UNCHANGED <<m_head, m_tail, m_buffer, p_pc, p_item, p_tail, p_head, p_ret,
                   c_op, c_head, c_tail, c_ret, c_prev, nextval, pushed, popped,
                   sc_pos, sc_res>>
    /\ UNCHANGED <<slabVars, lockVars, arenaVars, procVars, schedVars>>

\* lines 78-83: m_head.store(next_head, release); return item
PopStoreHead ==
    /\ c_pc = "store_head"
    /\ m_head' = NextIndex(c_head)
    /\ c_ret' = c_item
    /\ popped' = Append(popped, c_item)
    /\ c_pc' = "idle"
    /\ ScDone(c_item)
    /\ UNCHANGED <<m_tail, m_buffer, p_pc, p_item, p_tail, p_head, p_ret, c_op,
                   c_head, c_tail, c_item, c_prev, nextval, pushed>>
    /\ UNCHANGED <<slabVars, lockVars, arenaVars, procVars, schedVars>>

(* -------------------------------- peek -------------------------------- *)

\* line 88: current_head = m_head.load(relaxed)
PeekLoadHead ==
    /\ c_pc = "idle"
    /\ c_op' = "peek"
    /\ c_head' = m_head
    /\ c_pc' = "load_tail"
    /\ c_prev' = None
    /\ ScStart("K", p_pc = "idle")
    /\ UNCHANGED <<m_head, m_tail, m_buffer, p_pc, p_item, p_tail, p_head, p_ret,
                   c_tail, c_item, c_ret, nextval, pushed, popped>>
    /\ UNCHANGED <<slabVars, lockVars, arenaVars, procVars, schedVars>>

\* line 89: current_tail = m_tail.load(acquire)
PeekLoadTail ==
    /\ c_pc = "load_tail"
    /\ c_op = "peek"
    /\ c_tail' = m_tail
    /\ c_pc' = "check"
    /\ UNCHANGED <<m_head, m_tail, m_buffer, p_pc, p_item, p_tail, p_head, p_ret,
                   c_op, c_head, c_item, c_ret, c_prev, nextval, pushed, popped,
                   sc_pos, sc_res>>
    /\ UNCHANGED <<slabVars, lockVars, arenaVars, procVars, schedVars>>

\* lines 91-94: nullptr when empty, else &m_buffer[current_head]; the value
\* recorded is the one the returned pointer refers to at the return
PeekReturn ==
    /\ c_pc = "check"
    /\ c_op = "peek"
    /\ c_ret' = IF IsEmpty(c_head, c_tail) THEN None
                ELSE m_buffer[FrontSlot(c_head)]
    /\ c_pc' = "idle"
    /\ ScDone(c_ret')
    /\ UNCHANGED <<m_head, m_tail, m_buffer, p_pc, p_item, p_tail, p_head, p_ret,
                   c_op, c_head, c_tail, c_item, c_prev, nextval, pushed, popped>>
    /\ UNCHANGED <<slabVars, lockVars, arenaVars, procVars, schedVars>>

ProducerStep ==
    PushLoadTail \/ PushLoadHead \/ PushFull \/ PushWriteSlot \/ PushStoreTail

ConsumerStep ==
    \/ PopLoadHead \/ PopLoadTail \/ PopEmpty \/ PopReadSlot \/ PopStoreHead
    \/ PeekLoadHead \/ PeekLoadTail \/ PeekReturn

(***************************************************************************)
(*                        PART 2: SlabAllocator                            *)
(*                                                                         *)
(* Memory is the caller's region [m_base, m_base + m_total_size), held as  *)
(* 8-byte words keyed by their offset in the allocator's virtual offset    *)
(* space (GetPtr: address = m_base + (offset - m_base_offset)).  A uint64  *)
(* value is represented by its residue nearest zero: a negative integer -k *)
(* stands for 2^64 - k, so that the code's wrapping size arithmetic is     *)
(* kept (U64Ge compares as the unsigned comparison does).                  *)
(***************************************************************************)

ALIGNMENT == 64          \* constexpr size_t ALIGNMENT
HeaderSize == 64         \* sizeof(BlockHeader): alignas(ALIGNMENT), one uint64_t
FooterSize == 8          \* sizeof(BlockFooter)
PrevField == 8           \* offsetof(FreeNode, prev_offset)
MinSplitPayload == 64    \* the literal 64 of the split test
WordSize == 8            \* sizeof(uint64_t)
ByteRange == 256         \* values of one byte

\* content of a word of the region that nothing has written yet
Unknown == -1

\* the main heap's total_size is ALIGNMENT * HeapUnits bytes
HeapUnits == 12
\* the largest ordinary request is ALIGNMENT * MaxReqUnits bytes
MaxReqUnits == 2
\* the number of Allocate and Free calls made on one allocator
MaxCalls == 5

(* --------------------------- word arithmetic --------------------------- *)

\* a >= b on uint64_t
U64Ge(a, b) == IF (a < 0) = (b < 0) THEN a >= b ELSE a < 0

\* (x + ALIGNMENT - 1) & ~(ALIGNMENT - 1), wrapping
AlignUp(x) == (x + ALIGNMENT - 1) - ((x + ALIGNMENT - 1) % ALIGNMENT)

\* BlockHeader::GetSize, IsFree, Set, SetFree, SetSize on a size_and_state word
GetSize(w) == w - (w % 2)
IsFree(w) == (w % 2) # 0
SetWord(size, free) == (size - (size % 2)) + (IF free THEN 1 ELSE 0)
SetFreeWord(w, free) == IF free THEN GetSize(w) + 1 ELSE GetSize(w)
SetSizeWord(w, size) == SetWord(size, IsFree(w))

(* ------------------------------- memory -------------------------------- *)

\* GetPtr<T>(offset)
AddrOf(o) == s_base + (o - s_off)

InRegion(o) == o >= s_off /\ o + WordSize <= s_off + s_total

\* the words the model holds: inside the region, at 8-byte aligned addresses
Tracked(o) == InRegion(o) /\ AddrOf(o) % WordSize = 0

RegionWords(base, total, off) ==
    {o \in off..(off + total - WordSize) : (base + (o - off)) % WordSize = 0}

\* a load of the word at o (Unknown outside the held words)
Load(h, o) == IF Tracked(o) THEN h.mem[o] ELSE Unknown

\* the loads of S are loads of held, written words; else the call is wild
Chk(h, S) ==
    [h EXCEPT !.wild = @ \/ \E o \in S : (~Tracked(o) \/ h.mem[o] = Unknown)]

\* an 8-byte store of v at o.  A store one byte past a held word, inside the
\* region, lands as a little-endian store does on x86-64 and AArch64: on
\* bytes 1..7 of that word and byte 0 of the next.  Any other store outside
\* the held words is wild.
Store(h, o, v) ==
    IF Tracked(o) THEN [h EXCEPT !.mem[o] = v]
    ELSE IF Tracked(o - 1) /\ Tracked(o + WordSize - 1)
            /\ v >= 0 /\ v < ByteRange * ByteRange
    THEN LET lo == h.mem[o - 1]
             hi == h.mem[o + WordSize - 1]
         IN [h EXCEPT !.mem[o - 1] =
                 IF lo = Unknown THEN Unknown
                 ELSE (lo % ByteRange) + ByteRange * v,
                      !.mem[o + WordSize - 1] =
                 IF hi = Unknown THEN Unknown
                 ELSE hi - (hi % ByteRange)]
    ELSE [h EXCEPT !.wild = TRUE]

\* x handed to F as a value: each step of a call is evaluated once
Bind(x, F(_)) == CHOOSE y \in {F(v) : v \in {x}} : TRUE

\* UpdateFooter(header): footer = header + GetSize() - sizeof(BlockFooter)
UpdateFooter(h, b) ==
    Store(Chk(h, {b}), b + GetSize(Load(h, b)) - FooterSize, Load(h, b))

\* InsertHead(offset)
InsertHead(h, offset) ==
    Bind(Store(h, offset + HeaderSize, h.head), LAMBDA h1 :
    Bind(Store(h1, offset + HeaderSize + PrevField, 0), LAMBDA h2 :
    Bind(IF h2.head # 0
         THEN Store(h2, h2.head + HeaderSize + PrevField, offset)
         ELSE h2, LAMBDA h3 :
    [h3 EXCEPT !.head = offset])))

\* unlinking the node at `node` from its neighbours (RemoveFromFreeList, and
\* the same statements inlined in Allocate's whole-block branch)
Unlink(h, node) ==
    Bind(Chk(h, {node, node + PrevField}), LAMBDA h0 :
    Bind(IF Load(h0, node + PrevField) # 0
         THEN Store(h0, Load(h0, node + PrevField) + HeaderSize, Load(h0, node))
         ELSE [h0 EXCEPT !.head = Load(h0, node)], LAMBDA h1 :
    Bind(Chk(h1, {node, node + PrevField}), LAMBDA h2 :
    IF Load(h2, node) # 0
    THEN Store(h2, Load(h2, node) + HeaderSize + PrevField,
               Load(h2, node + PrevField))
    ELSE h2)))

\* RemoveFromFreeList(offset)
RemoveFromFreeList(h, offset) == Unlink(h, offset + HeaderSize)

(* ----------------------------- constructor ----------------------------- *)

\* Init(): one giant free block over the aligned part of the region
Construct(h) ==
    LET adjustment == AlignUp(s_base) - s_base
        effective_start == s_off + adjustment
        effective_size == s_total - adjustment
    IN IF effective_size < HeaderSize + FooterSize
       THEN h
       ELSE Bind(Store(h, effective_start, SetWord(effective_size, TRUE)),
                 LAMBDA h1 :
            Bind(UpdateFooter(h1, effective_start), LAMBDA h2 :
            Bind(Store(h2, effective_start + HeaderSize, 0), LAMBDA h3 :
            Bind(Store(h3, effective_start + HeaderSize + PrevField, 0),
                 LAMBDA h4 :
            [h4 EXCEPT !.head = effective_start]))))

\* whether Init() wrote a heap, and the offset and size of its giant block
HeapExists == s_total - (AlignUp(s_base) - s_base) >= HeaderSize + FooterSize
FirstBlock == s_off + (AlignUp(s_base) - s_base)
InitialSize == GetSize(s_total - (AlignUp(s_base) - s_base))

(* ------------------------------- Allocate ------------------------------ *)

\* sizeof(BlockHeader) + ((size + 63) & ~63) + sizeof(BlockFooter), rounded up
RequiredTotalSize(size) == AlignUp(HeaderSize + AlignUp(size) + FooterSize)

\* the split test: remaining >= sizeof(BlockHeader) + 64 + sizeof(BlockFooter)
Splits(remaining) == remaining >= HeaderSize + MinSplitPayload + FooterSize

\* the links of the new block's node fixed up (lines 233-243)
FixLinks(h, new_block) ==
    Bind(Chk(h, {new_block + HeaderSize, new_block + HeaderSize + PrevField}),
         LAMBDA h9 :
    Bind(IF Load(h9, new_block + HeaderSize + PrevField) # 0
         THEN Store(h9, Load(h9, new_block + HeaderSize + PrevField) + HeaderSize,
                    new_block)
         ELSE [h9 EXCEPT !.head = new_block], LAMBDA h10 :
    Bind(Chk(h10, {new_block + HeaderSize}), LAMBDA h11 :
    IF Load(h11, new_block + HeaderSize) # 0
    THEN Store(h11, Load(h11, new_block + HeaderSize) + HeaderSize + PrevField,
               new_block)
    ELSE h11)))

\* split: shrink the block to `required`, write the remainder of `remaining`
\* bytes as a free block and put it in the list where the block was
SplitBlock(h, curr, required, remaining) ==
    Bind(Store(h, curr, SetWord(required, FALSE)), LAMBDA h1 :
    Bind(UpdateFooter(h1, curr), LAMBDA h2 :
    Bind(Store(h2, curr + required, SetWord(remaining, TRUE)), LAMBDA h3 :
    Bind(UpdateFooter(h3, curr + required), LAMBDA h4 :
    Bind(Chk(h4, {curr + HeaderSize + PrevField}), LAMBDA h5 :
    Bind(Store(h5, curr + required + HeaderSize + PrevField,
               Load(h5, curr + HeaderSize + PrevField)), LAMBDA h6 :
    Bind(Chk(h6, {curr + HeaderSize}), LAMBDA h7 :
    Bind(Store(h7, curr + required + HeaderSize, Load(h7, curr + HeaderSize)),
         LAMBDA h8 :
    FixLinks(h8, curr + required)))))))))

\* whole-block use: unlink the block and mark it used.  (Line 247 calls
\* header->SetUsed(false), which BlockHeader does not declare; the branch is
\* modelled by its remaining statements, which end in SetFree(false).)
TakeBlock(h, curr) ==
    Bind(Unlink(h, curr + HeaderSize), LAMBDA h3 :
    Bind(Chk(h3, {curr}), LAMBDA h4 :
    Bind(Store(h4, curr, SetFreeWord(Load(h4, curr), FALSE)), LAMBDA h5 :
    UpdateFooter(h5, curr))))

\* the block at curr fits: split it or take it whole, return its payload
Found(h, curr, required, remaining) ==
    [h |-> IF Splits(remaining)
           THEN SplitBlock(h, curr, required, remaining)
           ELSE TakeBlock(h, curr),
     ret |-> curr + HeaderSize]

\* a scan that takes the last fitting block of the list instead of the
\* first (a faulty variant)
RECURSIVE ScanLast(_, _, _, _, _)
ScanLast(h, curr_offset, required, fuel, best) ==
    IF curr_offset = 0
    THEN IF best = 0 THEN [h |-> h, ret |-> 0]
         ELSE Found(h, best, required, GetSize(Load(h, best)) - required)
    ELSE IF fuel = 0 \/ Chk(h, {curr_offset, curr_offset + HeaderSize}).wild
    THEN [h |-> [h EXCEPT !.wild = TRUE], ret |-> 0]
    ELSE ScanLast(h, Load(h, curr_offset + HeaderSize), required, fuel - 1,
                  IF U64Ge(GetSize(Load(h, curr_offset)), required)
                  THEN curr_offset ELSE best)

LastFit(h, curr_offset, required, fuel) ==
    ScanLast(h, curr_offset, required, fuel, 0)

\* the first-fit scan from curr_offset; fuel bounds a scan of a list that
\* has become cyclic (the loop would not end: the call is wild)
RECURSIVE FirstFit(_, _, _, _)
FirstFit(h, curr_offset, required, fuel) ==
    IF curr_offset = 0 THEN [h |-> h, ret |-> 0]
    ELSE IF fuel = 0 \/ Chk(h, {curr_offset}).wild
    THEN [h |-> [h EXCEPT !.wild = TRUE], ret |-> 0]
    ELSE IF U64Ge(GetSize(Load(h, curr_offset)), required)
    THEN Found(h, curr_offset, required, GetSize(Load(h, curr_offset)) - required)
    ELSE IF Chk(h, {curr_offset + HeaderSize}).wild
    THEN [h |-> [h EXCEPT !.wild = TRUE], ret |-> 0]
    ELSE Bind(Load(h, curr_offset + HeaderSize), LAMBDA next :
         FirstFit(h, next, required, fuel - 1))

\* Allocate(size): [h |-> the heap after the call, ret |-> the offset returned]
AllocateCall(h, size) ==
    IF size = 0 THEN [h |-> h, ret |-> 0]
    ELSE Bind(RequiredTotalSize(size), LAMBDA required :
         FirstFit(h, h.head, required, Cardinality(DOMAIN h.mem)))

(* --------------------------------- Free -------------------------------- *)

\* the merge of the free block at next_block_offset into the block before it
MergeRight(h, block_offset, next_block_offset) ==
    Bind(RemoveFromFreeList(h, next_block_offset), LAMBDA h1 :
    Bind(Chk(h1, {block_offset, next_block_offset}), LAMBDA h2 :
    Bind(Store(h2, block_offset,
               SetSizeWord(Load(h2, block_offset),
                           GetSize(Load(h2, block_offset))
                           + GetSize(Load(h2, next_block_offset)))), LAMBDA h3 :
    UpdateFooter(h3, block_offset))))

\* the bounds test of COALESCE RIGHT
NextInBounds(next_block_offset) == next_block_offset < s_total + s_off

\* COALESCE RIGHT
CoalesceRight(h, block_offset) ==
    Bind(block_offset + GetSize(Load(h, block_offset)), LAMBDA next_block_offset :
    IF NextInBounds(next_block_offset)
    THEN Bind(Chk(h, {next_block_offset}), LAMBDA h0 :
         IF ~h0.wild /\ IsFree(Load(h0, next_block_offset))
         THEN MergeRight(h0, block_offset, next_block_offset)
         ELSE h0)
    ELSE h)

\* the block at block_offset merged into the free block at prev_offset
MergeLeft(h, prev_offset, block_offset) ==
    Bind(Chk(h, {prev_offset, block_offset}), LAMBDA h1 :
    Bind(Store(h1, prev_offset,
               SetSizeWord(Load(h1, prev_offset),
                           GetSize(Load(h1, prev_offset))
                           + GetSize(Load(h1, block_offset)))), LAMBDA h2 :
    UpdateFooter(h2, prev_offset)))

\* COALESCE LEFT, else InsertHead
CoalesceLeftOrInsert(h, block_offset) ==
    IF block_offset > s_first
    THEN Bind(Chk(h, {block_offset - FooterSize}), LAMBDA h0 :
         IF h0.wild THEN h0
         ELSE IF IsFree(Load(h0, block_offset - FooterSize))
         THEN MergeLeft(h0, block_offset
                            - GetSize(Load(h0, block_offset - FooterSize)),
                        block_offset)
         ELSE InsertHead(h0, block_offset))
    ELSE InsertHead(h, block_offset)

\* the body of Free once the block is known not to be free already
Release(h, block_offset) ==
    Bind(Store(h, block_offset, SetFreeWord(Load(h, block_offset), TRUE)),
         LAMBDA h1 :
    Bind(UpdateFooter(h1, block_offset), LAMBDA h2 :
    Bind(CoalesceRight(h2, block_offset), LAMBDA h3 :
    CoalesceLeftOrInsert(h3, block_offset))))

\* Free without the test of the free bit (a faulty variant)
FreeCallUnchecked(h, payload_offset) ==
    IF payload_offset = 0 THEN h
    ELSE Bind(Chk(h, {payload_offset - HeaderSize}), LAMBDA h0 :
         IF h0.wild THEN h0
         ELSE Release(h0, payload_offset - HeaderSize))

\* Free(payload_offset)
FreeCall(h, payload_offset) ==
    IF payload_offset = 0 THEN h
    ELSE Bind(Chk(h, {payload_offset - HeaderSize}), LAMBDA h0 :
         IF h0.wild \/ IsFree(Load(h0, payload_offset - HeaderSize)) THEN h0
         ELSE Release(h0, payload_offset - HeaderSize))

\* the marker of a walk that left the heap's structure
Broken == Unknown

\* the offsets met following next_offset from o; Broken ends the walk at a
\* link that is no node of the region or after more nodes than words
RECURSIVE ListWalk(_, _)
ListWalk(o, fuel) ==
    IF o = 0 THEN <<>>
    ELSE IF fuel = 0 \/ ~Tracked(o + HeaderSize) THEN <<Broken>>
    ELSE IF s_mem[o + HeaderSize] = Unknown THEN <<o, Broken>>
    ELSE <<o>> \o ListWalk(s_mem[o + HeaderSize], fuel - 1)

FreeList == ListWalk(s_head, Cardinality(DOMAIN s_mem))

\* the sum of the header sizes of the blocks on the free list (Unknown when
\* the list leaves the region's written words)
RECURSIVE SumList(_, _)
SumList(list, i) ==
    IF i > Len(list) THEN 0
    ELSE IF list[i] = Unknown \/ ~Tracked(list[i]) THEN Unknown
    ELSE IF s_mem[list[i]] = Unknown THEN Unknown
    ELSE Bind(SumList(list, i + 1), LAMBDA rest :
         IF rest = Unknown THEN Unknown ELSE GetSize(s_mem[list[i]]) + rest)

FreeBytes == SumList(FreeList, 1)

\* the monitor of runs of p = Allocate(n); Free(p) pairs: base is the free
\* bytes before the run's first Allocate, k the pairs completed, open the
\* offset allocated and not yet freed (0: none)
NoRound == [base |-> 0, k |-> 0, open |-> 0]

RoundAfterAllocate(ret) ==
    IF ret = 0 THEN NoRound
    ELSE IF s_round.open = 0 /\ s_round.k > 0 THEN [s_round EXCEPT !.open = ret]
    ELSE [base |-> FreeBytes, k |-> 0, open |-> ret]

RoundAfterFree(p) ==
    IF s_round.open # 0 /\ p = s_round.open
    THEN [s_round EXCEPT !.k = @ + 1, !.open = 0]
    ELSE NoRound

\* the monitor of the sizes asked for: off, or the set of the allocations
\* returned and not freed since (offset 0 is never one of them)
Unrecorded == {[p |-> 0, n |-> 0]}

RecordAfterAllocate(ret, n) ==
    IF s_req = Unrecorded \/ ret = 0 THEN s_req
    ELSE s_req \cup {[p |-> ret, n |-> n]}

RecordAfterFree(p) ==
    IF s_req = Unrecorded THEN s_req ELSE {a \in s_req : a.p # p}

\* the threads that call the allocator concurrently
Threads == {1, 2}
NoCall == [op |-> "none", arg |-> 0]

\* the monitor of the reuse scenario: on a fresh heap three allocations of
\* one size n (a, b, c), Free(b), then Allocate(n) returning r; pos counts
\* the scenario's calls made, the monitor is off once a call departs from it
MidOff == [pos |-> 0 - 1, n |-> 0, a |-> 0, b |-> 0, c |-> 0, r |-> 0]
MidStart == [pos |-> 0, n |-> 0, a |-> 0, b |-> 0, c |-> 0, r |-> 0]

MidAfterAllocate(n, ret) ==
    IF s_mid.pos = 0 /\ n # 0 /\ ret # 0
    THEN [s_mid EXCEPT !.pos = 1, !.n = n, !.a = ret]
    ELSE IF s_mid.pos = 1 /\ n = s_mid.n /\ ret # 0
    THEN [s_mid EXCEPT !.pos = 2, !.b = ret]
    ELSE IF s_mid.pos = 2 /\ n = s_mid.n /\ ret # 0
    THEN [s_mid EXCEPT !.pos = 3, !.c = ret]
    ELSE IF s_mid.pos = 4 /\ n = s_mid.n
    THEN [s_mid EXCEPT !.pos = 5, !.r = ret]
    ELSE MidOff

MidAfterFree(p) ==
    IF s_mid.pos = 3 /\ p = s_mid.b THEN [s_mid EXCEPT !.pos = 4] ELSE MidOff

(* ------------------------- construction and calls ---------------------- *)

\* the regions and base offsets the allocator is constructed with: an aligned
\* and a misaligned base address, a region too small for a block, one of 80
\* bytes, and the main heap
BaseAddrs == {4096, 4104}
StartOffsets == {0, 64}
TotalSizes == {ALIGNMENT, ALIGNMENT + 2 * WordSize, ALIGNMENT * HeapUnits}

\* values an uninitialized m_first_block_offset may hold
Indeterminate == {0, ALIGNMENT}

\* request sizes: the ends of every rounding class up to MaxReqUnits, zero,
\* and sizes near 2^64, whose rounding wraps
ReqSizes ==
    {0} \cup UNION {{ALIGNMENT * (k - 1) + 1, ALIGNMENT * k} : k \in 1..MaxReqUnits}
WrapSizes == {-1, -100, -150, -200}

\* SlabAllocator(base_addr, total_size, start_offset)
SlabConstructed(base, total, off) ==
    /\ s_base = base
    /\ s_total = total
    /\ s_off = off
    /\ \E h \in {Construct([mem |-> [o \in RegionWords(base, total, off) |-> Unknown],
                             head |-> 0, wild |-> FALSE])} :
          /\ s_mem = h.mem
          /\ s_head = h.head
          /\ s_wild = h.wild
    /\ s_first \in (IF HeapExists THEN {FirstBlock} ELSE Indeterminate)
    /\ s_live = {}
    /\ s_last = [op |-> "init", n |-> 0, ret |-> 0, same |-> TRUE]
    /\ s_calls = 0
    /\ s_round = NoRound
    /\ s_mid = MidStart
    /\ l_flag = FALSE
    /\ l_pc = [t \in Threads |-> "idle"]
    /\ l_call = [t \in Threads |-> NoCall]

SlabInit ==
    /\ \E base \in BaseAddrs, total \in TotalSizes, off \in StartOffsets :
          SlabConstructed(base, total, off)
    /\ s_req = Unrecorded

\* the same with the sizes asked for recorded
SlabInitRecording ==
    /\ \E base \in BaseAddrs, total \in TotalSizes, off \in StartOffsets :
          SlabConstructed(base, total, off)
    /\ s_req = {}

\* a call Allocate(n)
Allocate ==
    /\ ~s_wild
    /\ s_calls < MaxCalls
    /\ s_calls' = s_calls + 1
    /\ \E n \in ReqSizes \cup WrapSizes :
         \E r \in {AllocateCall([mem |-> s_mem, head |-> s_head, wild |-> FALSE], n)} :
            IF r.h.wild
            THEN /\ s_wild' = TRUE
                 /\ s_last' = [op |-> "alloc", n |-> n, ret |-> 0,
                               same |-> FALSE]
                 /\ s_round' = NoRound
                 /\ s_mid' = MidOff
                 /\ UNCHANGED <<s_mem, s_head, s_live, s_req>>
            ELSE /\ s_mem' = r.h.mem
                 /\ s_head' = r.h.head
                 /\ s_live' = IF r.ret # 0 THEN s_live \cup {r.ret} ELSE s_live
                 /\ s_req' = RecordAfterAllocate(r.ret, n)
                 /\ s_last' = [op |-> "alloc", n |-> n, ret |-> r.ret,
                               same |-> (r.h.mem = s_mem /\ r.h.head = s_head)]
                 /\ s_round' = RoundAfterAllocate(r.ret)
                 /\ s_mid' = MidAfterAllocate(n, r.ret)
                 /\ UNCHANGED s_wild
    /\ UNCHANGED <<s_base, s_total, s_off, s_first, ringVars, lockVars, arenaVars, procVars, schedVars>>

\* the offset of a Free directly before (freeing it again is a double free)
JustFreed == IF s_last.op = "free" THEN {s_last.n} ELSE {}

\* a call Free(p) of an offset Allocate returned: a live one, or the one
\* freed by the call directly before (a double free)
Free ==
    /\ ~s_wild
    /\ s_calls < MaxCalls
    /\ s_calls' = s_calls + 1
    /\ \E p \in s_live \cup JustFreed :
         \E h \in {FreeCall([mem |-> s_mem, head |-> s_head, wild |-> FALSE], p)} :
            IF h.wild
            THEN /\ s_wild' = TRUE
                 /\ s_last' = [op |-> "free", n |-> p, ret |-> 0,
                               same |-> FALSE]
                 /\ s_round' = NoRound
                 /\ s_mid' = MidOff
                 /\ UNCHANGED <<s_mem, s_head, s_live, s_req>>
            ELSE /\ s_mem' = h.mem
                 /\ s_head' = h.head
                 /\ s_live' = s_live \ {p}
                 /\ s_req' = RecordAfterFree(p)
                 /\ s_last' = [op |-> "free", n |-> p, ret |-> 0,
                               same |-> (h.mem = s_mem /\ h.head = s_head)]
                 /\ s_round' = RoundAfterFree(p)
                 /\ s_mid' = MidAfterFree(p)
                 /\ UNCHANGED s_wild
    /\ UNCHANGED <<s_base, s_total, s_off, s_first, ringVars, lockVars, arenaVars, procVars, schedVars>>

(* ------------------- concurrent calls under the Spinlock ---------------- *)

\* the number of calls the threads make on one allocator
MaxLockCalls == 3

\* a test_and_set that finds the flag clear whatever it holds (a faulty
\* variant, under which MutualExclusion fails)
TestAndSetBlind(flag) == [old |-> FALSE, new |-> TRUE]

\* flag.test_and_set(acquire): the value found and the value left
TestAndSet(flag) == [old |-> flag, new |-> TRUE]

\* thread t calls Allocate(n) or Free(p); Allocate(0) returns at line 187,
\* before the lock is taken.  A thread frees an offset that is live and that
\* no other thread is freeing.
CallBegin(t) ==
    /\ ~s_wild
    /\ l_pc[t] = "idle"
    /\ s_calls < MaxLockCalls
    /\ s_calls' = s_calls + 1
    /\ \/ /\ s_last' = [op |-> "alloc", n |-> 0, ret |-> 0, same |-> TRUE]
          /\ UNCHANGED <<l_pc, l_call, s_live, s_req>>
       \/ \E n \in (ReqSizes \cup WrapSizes) \ {0} :
             /\ l_call' = [l_call EXCEPT ![t] = [op |-> "alloc", arg |-> n]]
             /\ l_pc' = [l_pc EXCEPT ![t] = "spin"]
             /\ UNCHANGED <<s_last, s_live, s_req>>
       \/ \E p \in s_live :
             /\ l_call' = [l_call EXCEPT ![t] = [op |-> "free", arg |-> p]]
             /\ l_pc' = [l_pc EXCEPT ![t] = "spin"]
             /\ s_live' = s_live \ {p}
             /\ s_req' = RecordAfterFree(p)
             /\ UNCHANGED s_last
    /\ s_round' = NoRound
    /\ s_mid' = MidOff
    /\ UNCHANGED <<s_base, s_total, s_off, s_first, s_mem, s_head, s_wild,
                   l_flag, ringVars, arenaVars, procVars, schedVars>>

\* Spinlock::lock (lines 52-63): the test_and_set that finds the flag clear
\* ends the loop; one that finds it set changes nothing and is repeated
LockAcquire(t) ==
    /\ l_pc[t] = "spin"
    /\ ~TestAndSet(l_flag).old
    /\ l_flag' = TestAndSet(l_flag).new
    /\ l_pc' = [l_pc EXCEPT ![t] = "held"]
    /\ UNCHANGED <<l_call, slabVars, ringVars, arenaVars, procVars, schedVars>>

\* the statements of Allocate (lines 203-273) or Free (lines 281-344) made
\* while the guard holds the lock
LockedBody(t) ==
    /\ l_pc[t] = "held"
    /\ l_pc' = [l_pc EXCEPT ![t] = "done"]
    /\ \E r \in {IF l_call[t].op = "alloc"
                 THEN AllocateCall([mem |-> s_mem, head |-> s_head,
                                    wild |-> FALSE], l_call[t].arg)
                 ELSE [h |-> FreeCall([mem |-> s_mem, head |-> s_head,
                                       wild |-> FALSE], l_call[t].arg),
                       ret |-> 0]} :
          IF r.h.wild
          THEN /\ s_wild' = TRUE
               /\ s_last' = [op |-> l_call[t].op, n |-> l_call[t].arg,
                             ret |-> 0, same |-> FALSE]
               /\ UNCHANGED <<s_mem, s_head, s_live, s_req>>
          ELSE /\ s_mem' = r.h.mem
               /\ s_head' = r.h.head
               /\ s_live' = IF r.ret # 0 THEN s_live \cup {r.ret} ELSE s_live
               /\ s_req' = RecordAfterAllocate(r.ret, l_call[t].arg)
               /\ s_last' = [op |-> l_call[t].op, n |-> l_call[t].arg,
                             ret |-> r.ret,
                             same |-> (r.h.mem = s_mem /\ r.h.head = s_head)]
               /\ UNCHANGED s_wild
    /\ UNCHANGED <<s_base, s_total, s_off, s_first, s_calls, s_round, s_mid,
                   l_flag, l_call, ringVars, arenaVars, procVars, schedVars>>

\* ~SpinLockGuard (line 77): Spinlock::unlock, flag.clear(release)
LockRelease(t) ==
    /\ l_pc[t] = "done"
    /\ l_flag' = FALSE
    /\ l_pc' = [l_pc EXCEPT ![t] = "idle"]
    /\ l_call' = [l_call EXCEPT ![t] = NoCall]
    /\ UNCHANGED <<slabVars, ringVars, arenaVars, procVars, schedVars>>

(***************************************************************************)
(*                    PART 3: MemoryManager (ghost arena)                  *)
(*                                                                         *)
(* The reservation is a run of pages without access; a fault on one of     *)
(* them reaches ghost_signal_handler, which commits the page.  The kernel  *)
(* side (mappings, page access, signal dispositions, the process's life)   *)
(* is part of the state.  Sizes are scaled: the arena has ArenaPages pages *)
(* of PageSize bytes, and the self-test offset keeps its place at half the *)
(* arena (512 GiB of 1 TiB).  An access is one aligned 8-byte word.        *)
(***************************************************************************)

\* sysconf(_SC_PAGESIZE) (MemoryManager.cpp line 187), scaled: a power of two
PageSize == 32
\* the number of pages of the reservation
ArenaPages == 4
\* the calls made in one run
MaxArenaCalls == 4

\* GHOST_SPACE_SIZE (MemoryManager.hpp line 36), scaled
GHOST_SPACE_SIZE == ArenaPages * PageSize
\* GHOST_MAGIC (line 37): a stand-in, any value other than a fresh page's zero
GHOST_MAGIC == 49261
\* sizeof(MemoryHeader) (lines 23-27) and the offsets of its three fields
SizeofMemoryHeader == 3 * WordSize
MagicAt == 0
VectorCountAt == WordSize
HeadOffsetAt == 2 * WordSize

NullAddr == 0
\* MAP_FAILED is (void*) -1: 2^64 - 1
MAP_FAILED == -1
\* the addresses mmap may hand out: page aligned, the regions disjoint
ArenaBases == {4096, 8192}
Signals == {"SIGSEGV", "SIGBUS"}

\* the offset computed in int arithmetic, where 512 * 2^30 wraps to 0 (a
\* faulty variant: the literal without its ULL suffix)
SelfTestOffsetInt == (GHOST_SPACE_SIZE \div 2) % (GHOST_SPACE_SIZE \div 4)

\* run_self_test (lines 162 and 174)
SelfTestOffset == GHOST_SPACE_SIZE \div 2
SelfTestValue == 9999

\* the threads: main and the analysis worker (ProcessingUnit::Start)
MainThread == 1
WorkerThread == 2

Pages == 0 .. (ArenaPages - 1)
ArenaWords == {w \in 0 .. (GHOST_SPACE_SIZE - 1) : w % WordSize = 0}

\* no mapping at a base address; and mmap's fresh one (PROT_NONE, MAP_ANON:
\* no page accessible, every page zero-filled once committed)
NoMap == [mapped |-> FALSE, prot |-> [p \in Pages |-> FALSE],
          data |-> [w \in ArenaWords |-> 0]]
FreshMap == [NoMap EXCEPT !.mapped = TRUE]

\* the mapped region holding address a, as a set of at most one base
RegionOf(maps, a) ==
    {b \in ArenaBases : maps[b].mapped /\ a >= b /\ a < b + GHOST_SPACE_SIZE}

\* the page boundary at or after addr (a faulty variant of the alignment)
PageAddrUp(addr) ==
    (addr + PageSize - 1) - BitAnd(addr + PageSize - 1, PageSize - 1)

\* handle_fault (lines 186-188): addr & ~(page_size - 1)
PageAddr(addr) == addr - BitAnd(addr, PageSize - 1)

PageIndex(b, a) == (a - b) \div PageSize

\* the access at address a goes through: its page is mapped and read-write
Accessible(maps, a) ==
    \E b \in RegionOf(maps, a) : maps[b].prot[PageIndex(b, a)]

ReadWord(maps, a) ==
    LET b == CHOOSE x \in RegionOf(maps, a) : TRUE IN maps[b].data[a - b]

WriteWord(maps, a, v) ==
    LET b == CHOOSE x \in RegionOf(maps, a) : TRUE
    IN  [maps EXCEPT ![b].data[a - b] = v]

\* a commit that installs a fresh zero-filled page each time (a faulty variant:
\* the page mapped anew, as by mmap with MAP_FIXED, instead of mprotect)
MprotectFresh(maps, page_addr) ==
    LET b == CHOOSE x \in RegionOf(maps, page_addr) : TRUE
        p == PageIndex(b, page_addr)
    IN  [maps EXCEPT ![b].prot[p] = TRUE,
                     ![b].data = [w \in ArenaWords |->
                                    IF w \div PageSize = p THEN 0 ELSE @[w]]]

\* mprotect(page_addr, page_size, PROT_READ | PROT_WRITE) where it succeeds
Mprotect(maps, page_addr) ==
    LET b == CHOOSE x \in RegionOf(maps, page_addr) : TRUE
    IN  [maps EXCEPT ![b].prot[PageIndex(b, page_addr)] = TRUE]

\* the outcomes mprotect can have: it fails on an address that is not mapped
\* (ENOMEM), and the kernel may refuse a mapped one (ENOMEM as well)
MprotectOutcomes(maps, page_addr) ==
    IF RegionOf(maps, page_addr) = {} THEN {FALSE} ELSE {TRUE, FALSE}

\* ghost_signal_handler's bounds check (lines 25-30), in uintptr_t arithmetic
InGhostRange(base, fault_addr) ==
    /\ base # NullAddr
    /\ U64Ge(fault_addr, base)
    /\ ~U64Ge(fault_addr, base + GHOST_SPACE_SIZE)

\* the lookup with its bounds check off by one (a faulty variant: > for >=)
GetGhostPtrLoose(base, offset) ==
    IF U64Ge(offset, GHOST_SPACE_SIZE + 1)
    THEN [err |-> "InvalidAccess", val |-> 0]
    ELSE IF base = NullAddr
         THEN [err |-> "InitializationFailed", val |-> 0]
         ELSE [err |-> "None", val |-> base + offset]

\* get_ghost_ptr (lines 126-131): the error, or None and the address
get_ghost_ptr(base, offset) ==
    IF U64Ge(offset, GHOST_SPACE_SIZE)
    THEN [err |-> "InvalidAccess", val |-> 0]
    ELSE IF base = NullAddr
         THEN [err |-> "InitializationFailed", val |-> 0]
         ELSE [err |-> "None", val |-> base + offset]

\* a memory access in progress: what it is part of, its address, whether it
\* writes, the value written or read, the signal a fault of it raises, and
\* (kept for the properties) the times it faulted, whether the handler has
\* committed its page, and the two counters as they were when the call began
NoOp == [kind |-> "none", addr |-> 0, write |-> FALSE, val |-> 0,
         sig |-> "SIGSEGV", faults |-> 0, committed |-> FALSE,
         fc0 |-> 0, rp0 |-> 0]
\* a completed call: its name, argument, error and value, and the same
NoRet == [op |-> "none", arg |-> 0, err |-> "None", val |-> 0,
          faults |-> 0, fc0 |-> 0, rp0 |-> 0]
Ret(op, arg, err, val) == [NoRet EXCEPT !.op = op, !.arg = arg, !.err = err,
                                        !.val = val]
RetOf(name, op) == [op |-> name, arg |-> op.addr, err |-> "None",
                    val |-> op.val, faults |-> op.faults, fc0 |-> op.fc0,
                    rp0 |-> op.rp0]

\* the state before initialize, on a platform whose invalid accesses raise sig
ArenaInitOn(sig) ==
    /\ g_sig = sig
    /\ m_base_addr = NullAddr
    /\ m_running = FALSE
    /\ m_fault_count = 0
    /\ m_resident_pages = 0
    /\ g_maps = [b \in ArenaBases |-> NoMap]
    /\ g_disp = [s \in Signals |-> "default"]
    /\ g_proc = "alive"
    /\ g_worker = FALSE
    /\ g_pc = [t \in Threads |-> "idle"]
    /\ g_op = [t \in Threads |-> NoOp]
    /\ g_ret = [t \in Threads |-> NoRet]
    /\ g_calls = 0
    /\ pu_running = FALSE
    /\ g_running = TRUE
    /\ u_pc = "boot"
    /\ ui_done = FALSE
    /\ ui_seen = -1
    /\ ghost_offset = 0
    /\ q_len = 0
    /\ w_pc = "none"
    /\ w_off = 0
    /\ w_docs = 0

ArenaInit == ArenaInitOn("SIGSEGV")

\* a thread may begin a call: the process lives, the thread exists and is
\* between calls
MayCall(t) ==
    /\ g_proc = "alive"
    /\ g_pc[t] = "idle"
    /\ t = WorkerThread => g_worker
    /\ g_calls < MaxArenaCalls

(* ------------------------- initialize, shutdown ------------------------ *)

\* the outcomes of install_signal_handlers (lines 110-124): both installed,
\* or the sigaction of SIGBUS fails, or (SIGBUS installed) that of SIGSEGV
InstallOutcomes == {"ok", "bus_failed", "segv_failed"}

\* the read of header->magic (initialize_header line 149) that begins
HeaderRead(r) ==
    [NoOp EXCEPT !.kind = "hdr", !.addr = r.val + MagicAt, !.sig = g_sig,
                 !.fc0 = m_fault_count, !.rp0 = m_resident_pages]

\* initialize (lines 58-74) up to the read of the header's magic, with
\* reserve_address_space (91-108), install_signal_handlers (110-124) and the
\* start of initialize_header (133-143).  The program initializes before it
\* starts the worker and does not reserve again while the worker runs.
InitializeCall ==
    /\ MayCall(MainThread)
    /\ m_running \/ ~g_worker
    /\ g_calls' = g_calls + 1
    /\ UNCHANGED <<m_fault_count, m_resident_pages, g_proc, g_worker>>
    /\ IF m_running
       THEN /\ g_ret' = [g_ret EXCEPT
                           ![MainThread] = Ret("initialize", 0, "None", 0)]
            /\ UNCHANGED <<m_base_addr, m_running, g_maps, g_disp, g_pc, g_op>>
       ELSE \/ /\ m_base_addr' = MAP_FAILED
               /\ g_ret' = [g_ret EXCEPT ![MainThread] =
                              Ret("initialize", 0, "MemoryReservationFailed", 0)]
               /\ UNCHANGED <<m_running, g_maps, g_disp, g_pc, g_op>>
            \/ \E b \in ArenaBases, inst \in InstallOutcomes :
                  /\ ~g_maps[b].mapped
                  /\ m_base_addr' = b
                  /\ g_maps' = [g_maps EXCEPT ![b] = FreshMap]
                  /\ g_disp' = [s \in Signals |->
                                  IF \/ inst = "ok"
                                     \/ inst = "segv_failed" /\ s = "SIGBUS"
                                  THEN "handler" ELSE g_disp[s]]
                  /\ IF inst # "ok"
                     THEN /\ g_ret' = [g_ret EXCEPT ![MainThread] =
                                 Ret("initialize", 0, "InitializationFailed", 0)]
                          /\ UNCHANGED <<m_running, g_pc, g_op>>
                     ELSE /\ m_running' = TRUE
                          /\ \E r \in {get_ghost_ptr(b, 0)} :
                               IF r.err # "None"
                               THEN /\ g_ret' = [g_ret EXCEPT ![MainThread] =
                                           Ret("initialize", 0, "None", 0)]
                                    /\ UNCHANGED <<g_pc, g_op>>
                               ELSE /\ g_op' = [g_op EXCEPT ![MainThread] =
                                                  HeaderRead(r)]
                                    /\ g_pc' = [g_pc EXCEPT
                                                  ![MainThread] = "access"]
                                    /\ UNCHANGED g_ret
    /\ UNCHANGED <<g_sig, ringVars, slabVars, lockVars, procVars, schedVars>>

\* a header whose head_offset is the size of a pointer to the header (a
\* faulty variant: sizeof(header) for sizeof(MemoryHeader))
WriteHeaderPtrSize(maps, header) ==
    WriteWord(WriteWord(WriteWord(maps, header + MagicAt, GHOST_MAGIC),
                        header + VectorCountAt, 0),
              header + HeadOffsetAt, WordSize)

\* the header the bootstrap writes (initialize_header lines 151-153)

WriteHeader(maps, header) ==
    WriteWord(WriteWord(WriteWord(maps, header + MagicAt, GHOST_MAGIC),
                        header + VectorCountAt, 0),
              header + HeadOffsetAt, SizeofMemoryHeader)

\* initialize_header after the read of the magic (lines 149-156), and the
\* return of initialize (lines 76-77); the call is recorded with the address
\* of the header it loaded
InitializeHeader(t) ==
    /\ g_proc = "alive"
    /\ g_pc[t] = "header"
    /\ Accessible(g_maps, g_op[t].addr)
    /\ g_maps' = IF g_op[t].val # GHOST_MAGIC
                 THEN WriteHeader(g_maps, g_op[t].addr - MagicAt)
                 ELSE g_maps
    /\ g_ret' = [g_ret EXCEPT ![t] = RetOf("initialize", g_op[t])]
    /\ g_pc' = [g_pc EXCEPT ![t] = "idle"]
    /\ g_op' = [g_op EXCEPT ![t] = NoOp]
    /\ UNCHANGED <<m_base_addr, m_running, m_fault_count, m_resident_pages,
                   g_disp, g_proc, g_worker, g_calls,
                   g_sig, ringVars, slabVars, lockVars, procVars, schedVars>>

\* shutdown (lines 80-89); munmap releases the mapping at m_base_addr
Shutdown ==
    /\ MayCall(MainThread)
    /\ g_calls' = g_calls + 1
    /\ g_ret' = [g_ret EXCEPT ![MainThread] = Ret("shutdown", 0, "None", 0)]
    /\ IF ~m_running
       THEN UNCHANGED <<m_running, g_maps>>
       ELSE /\ m_running' = FALSE
            /\ g_maps' = IF m_base_addr \in ArenaBases
                         THEN [g_maps EXCEPT ![m_base_addr] = NoMap]
                         ELSE g_maps
    /\ UNCHANGED <<m_base_addr, m_fault_count, m_resident_pages, g_disp,
                   g_proc, g_worker, g_pc, g_op,
                   g_sig, ringVars, slabVars, lockVars, procVars, schedVars>>

\* ProcessingUnit::Start (ProcessingUnit.cpp lines 66-73) starts the worker,
\* after main has initialized the arena
Start ==
    /\ MayCall(MainThread)
    /\ m_running
    /\ ~g_worker
    /\ g_worker' = TRUE
    /\ pu_running' = TRUE
    /\ w_pc' = "loop"
    /\ g_calls' = g_calls + 1
    /\ g_ret' = [g_ret EXCEPT ![MainThread] = Ret("start", 0, "None", 0)]
    /\ UNCHANGED <<m_base_addr, m_running, m_fault_count, m_resident_pages,
                   g_maps, g_disp, g_proc, g_pc, g_op,
                   g_sig, ringVars, slabVars, lockVars, schedVars>>
    /\ UNCHANGED <<g_running, u_pc, ui_done, ui_seen, ghost_offset, q_len,
                   w_off, w_docs>>

(* ----------------------------- get_ghost_ptr --------------------------- *)

\* the offsets asked for: inside, the last inside, the first outside, beyond,
\* and the largest size_t
PtrOffsets == {0, SelfTestOffset, GHOST_SPACE_SIZE - 1, GHOST_SPACE_SIZE,
               GHOST_SPACE_SIZE + 1, -1}

GetGhostPtr(t) ==
    /\ MayCall(t)
    /\ g_calls' = g_calls + 1
    /\ \E offset \in PtrOffsets :
         \E r \in {get_ghost_ptr(m_base_addr, offset)} :
            g_ret' = [g_ret EXCEPT ![t] =
                        Ret("get_ghost_ptr", offset, r.err, r.val)]
    /\ UNCHANGED <<m_base_addr, m_running, m_fault_count, m_resident_pages,
                   g_maps, g_disp, g_proc, g_worker, g_pc, g_op,
                   g_sig, ringVars, slabVars, lockVars, procVars, schedVars>>

(* ------------------- the records of ProcessDocument -------------------- *)

\* entry_size (ProcessingUnit.cpp line 195: two floats and VECTOR_DIM bytes),
\* scaled to two words: scale and bias, and the quantized vector
EntrySize == 2 * WordSize

\* word j of the record of the n-th document (lines 217-238)
RecordWord(n, j) == 100 * (n + 1) + j + 1

\* the accesses of one append in a wrong order (a faulty variant: the
\* counter published before the record is written)
AppendOrderCountFirst ==
    <<"pd_head", "pd_cnt", "pd_rec", "pd_adv_r", "pd_adv_w">>

\* the accesses of one append in program order (lines 191-249): head_offset
\* is read, the record written, head_offset read and written again by +=,
\* and vector_count incremented by fetch_add
AppendOrder == <<"pd_head", "pd_rec", "pd_adv_r", "pd_adv_w", "pd_cnt">>
AppendKinds == {AppendOrder[i] : i \in DOMAIN AppendOrder}

\* head_offset set to the entry size (a faulty variant: = for +=)
AdvanceHeadAssign(head) == EntrySize

\* header->head_offset += entry_size (line 246)
AdvanceHead(head) == head + EntrySize

\* what a write stores: its value, and for fetch_add(1) the word plus one
Stored(maps, op) ==
    IF op.kind = "pd_cnt" THEN ReadWord(maps, op.addr) + 1 ELSE op.val

\* the access of ProcessDocument that follows the completed access op, where
\* off is current_offset; NoOp when ProcessDocument returns
AppendNext(op, off) ==
    LET more == /\ op.kind = "pd_rec"
                /\ op.addr + WordSize < m_base_addr + off + EntrySize
        i    == CHOOSE x \in DOMAIN AppendOrder : AppendOrder[x] = op.kind
        k2   == IF more THEN "pd_rec"
                ELSE IF i = Len(AppendOrder) THEN "none"
                ELSE AppendOrder[i + 1]
        a2   == CASE k2 = "pd_rec" -> IF more THEN op.addr + WordSize
                                      ELSE m_base_addr + off
                  [] k2 = "pd_cnt" -> m_base_addr + VectorCountAt
                  [] OTHER -> m_base_addr + HeadOffsetAt
    IN  IF k2 = "none" THEN NoOp
        ELSE [NoOp EXCEPT
                !.kind = k2, !.addr = a2,
                !.write = k2 \in {"pd_rec", "pd_adv_w", "pd_cnt"},
                !.val = CASE k2 = "pd_rec" ->
                               RecordWord(w_docs,
                                          (a2 - (m_base_addr + off)) \div WordSize)
                          [] k2 = "pd_adv_w" -> AdvanceHead(op.val)
                          [] OTHER -> 0,
                !.sig = g_sig, !.fc0 = m_fault_count,
                !.rp0 = m_resident_pages]

\* the span Update's touches cycle through (line 103: 64 MiB of the 1 TiB),
\* scaled
TouchSpan == 2 * PageSize

(* --------------------- accesses, faults and the handler ---------------- *)

\* the places user code touches relative to the base address it holds: the
\* word before the arena, the first record (on the header's page), the page
\* of the self-test and the first word past the arena's end
UserOffsets == {0 - WordSize, SizeofMemoryHeader, SelfTestOffset,
                GHOST_SPACE_SIZE}
UserValues == {7}

\* user code (ProcessingUnit::Update and ProcessDocument) reads
\* get_base_addr(), returns when it is null, and reads or writes a word
AccessBegin(t) ==
    /\ MayCall(t)
    /\ m_base_addr # NullAddr
    /\ g_calls' = g_calls + 1
    /\ \E k \in UserOffsets, w \in BOOLEAN, v \in UserValues :
          g_op' = [g_op EXCEPT ![t] =
                     [kind |-> "user", addr |-> m_base_addr + k, write |-> w,
                      val |-> IF w THEN v ELSE 0, sig |-> g_sig, faults |-> 0,
                      committed |-> FALSE,
                      fc0 |-> m_fault_count, rp0 |-> m_resident_pages]]
    /\ g_pc' = [g_pc EXCEPT ![t] = "access"]
    /\ UNCHANGED <<m_base_addr, m_running, m_fault_count, m_resident_pages,
                   g_maps, g_disp, g_proc, g_worker, g_ret,
                   g_sig, ringVars, slabVars, lockVars, procVars, schedVars>>

\* the access is executed and its page is accessible: the word is written or
\* read, and the code the access is part of goes on
Access(t) ==
    /\ g_proc = "alive"
    /\ g_pc[t] = "access"
    /\ Accessible(g_maps, g_op[t].addr)
    /\ g_maps' = IF g_op[t].write
                 THEN WriteWord(g_maps, g_op[t].addr, Stored(g_maps, g_op[t]))
                 ELSE g_maps
    /\ \E op \in {IF g_op[t].write THEN g_op[t]
                  ELSE [g_op[t] EXCEPT !.val = ReadWord(g_maps, g_op[t].addr)]} :
         CASE op.kind = "user" ->
                /\ g_pc' = [g_pc EXCEPT ![t] = "idle"]
                /\ g_op' = [g_op EXCEPT ![t] = NoOp]
                /\ g_ret' = [g_ret EXCEPT ![t] =
                               RetOf(IF op.write THEN "write" ELSE "read", op)]
                /\ UNCHANGED procVars
           [] op.kind = "hdr" ->
                /\ g_pc' = [g_pc EXCEPT ![t] = "header"]
                /\ g_op' = [g_op EXCEPT ![t] = op]
                /\ UNCHANGED <<g_ret, procVars>>
           [] op.kind = "st_w" ->
                \* run_self_test line 176: the read of *magic_ptr follows
                /\ g_pc' = [g_pc EXCEPT ![t] = "access"]
                /\ g_op' = [g_op EXCEPT ![t] =
                              [op EXCEPT !.kind = "st_r", !.write = FALSE,
                                         !.val = 0]]
                /\ UNCHANGED <<g_ret, procVars>>
           [] op.kind = "st_r" ->
                /\ g_pc' = [g_pc EXCEPT ![t] = "st_check"]
                /\ g_op' = [g_op EXCEPT ![t] = op]
                /\ UNCHANGED <<g_ret, procVars>>
           [] op.kind \in AppendKinds ->
                \* ProcessDocument goes on to its next access, or returns
                \E nxt \in {AppendNext(op, IF op.kind = "pd_head"
                                             THEN op.val ELSE w_off)} :
                   /\ g_op' = [g_op EXCEPT ![t] = nxt]
                   /\ g_pc' = [g_pc EXCEPT ![t] = IF nxt.kind = "none"
                                                  THEN "idle" ELSE "access"]
                   /\ w_pc' = IF nxt.kind = "none" THEN "loop" ELSE w_pc
                   /\ w_off' = IF op.kind = "pd_head" THEN op.val ELSE w_off
                   /\ w_docs' = IF nxt.kind = "none" THEN w_docs + 1
                                 ELSE w_docs
                   /\ UNCHANGED <<g_ret, pu_running, g_running, u_pc, ui_done,
                                  ui_seen, ghost_offset, q_len>>
           [] op.kind = "ui_cnt" ->
                \* Update lines 84-104: doc_count is read; one time in ten
                \* (rand) the page at ghost_offset is touched
                /\ ui_seen' = op.val
                /\ \/ /\ g_pc' = [g_pc EXCEPT ![t] = "idle"]
                      /\ g_op' = [g_op EXCEPT ![t] = NoOp]
                      /\ u_pc' = "clip"
                   \/ /\ g_op' = [g_op EXCEPT ![t] =
                                    [NoOp EXCEPT !.kind = "ui_touch",
                                           !.addr = m_base_addr + ghost_offset,
                                           !.sig = g_sig,
                                           !.fc0 = m_fault_count,
                                           !.rp0 = m_resident_pages]]
                      /\ UNCHANGED <<g_pc, u_pc>>
                /\ UNCHANGED <<g_ret, pu_running, g_running, ui_done,
                               ghost_offset, q_len, w_pc, w_off, w_docs>>
           [] op.kind = "ui_touch" ->
                \* lines 101-103, then UI_Fiber_Func's render and Yield
                /\ ghost_offset' = (ghost_offset + PageSize) % TouchSpan
                /\ g_pc' = [g_pc EXCEPT ![t] = "idle"]
                /\ g_op' = [g_op EXCEPT ![t] = NoOp]
                /\ u_pc' = "clip"
                /\ UNCHANGED <<g_ret, pu_running, g_running, ui_done, ui_seen,
                               q_len, w_pc, w_off, w_docs>>
    /\ UNCHANGED <<m_base_addr, m_running, m_fault_count, m_resident_pages,
                   g_disp, g_proc, g_worker, g_calls,
                   g_sig, ringVars, slabVars, lockVars, schedVars>>

\* the access is executed and its page is not accessible: the kernel raises
\* the signal, which enters the handler or, under the default disposition,
\* kills the process
Fault(t) ==
    /\ g_proc = "alive"
    /\ g_pc[t] = "access"
    /\ ~Accessible(g_maps, g_op[t].addr)
    /\ IF g_disp[g_op[t].sig] = "handler"
       THEN /\ g_pc' = [g_pc EXCEPT ![t] = "handler"]
            /\ UNCHANGED g_proc
       ELSE /\ g_proc' = "crashed"
            /\ UNCHANGED g_pc
    /\ UNCHANGED <<m_base_addr, m_running, m_fault_count, m_resident_pages,
                   g_maps, g_disp, g_worker, g_op, g_ret, g_calls,
                   g_sig, ringVars, slabVars, lockVars, procVars, schedVars>>

\* handle_fault (lines 184-201) for the outcome ok of its mprotect: the maps
\* and the two counters after it, and its return value
handle_fault(maps, fault_addr, ok) ==
    IF ~ok
    THEN [maps |-> maps, fault_count |-> m_fault_count,
          resident_pages |-> m_resident_pages, ret |-> FALSE]
    ELSE [maps |-> Mprotect(maps, PageAddr(fault_addr)),
          fault_count |-> m_fault_count + 1,
          resident_pages |-> m_resident_pages + 1, ret |-> TRUE]

\* ghost_signal_handler (lines 14-42) with handle_fault: a fault in range is
\* committed and the handler returns; otherwise, and when the commit fails,
\* the signal's disposition is reset to the default and the handler returns
\* as well.  Returning from the handler re-executes the faulting access.
Handler(t) ==
    /\ g_proc = "alive"
    /\ g_pc[t] = "handler"
    /\ \E ok \in IF InGhostRange(m_base_addr, g_op[t].addr)
                 THEN MprotectOutcomes(g_maps, PageAddr(g_op[t].addr))
                 ELSE {FALSE} :
         \E h \in {handle_fault(g_maps, g_op[t].addr, ok)} :
            /\ g_maps' = h.maps
            /\ m_fault_count' = h.fault_count
            /\ m_resident_pages' = h.resident_pages
            /\ g_disp' = IF h.ret THEN g_disp
                         ELSE [g_disp EXCEPT ![g_op[t].sig] = "default"]
            /\ g_op' = [g_op EXCEPT ![t].faults = @ + 1,
                                    ![t].committed = h.ret]
    /\ g_pc' = [g_pc EXCEPT ![t] = "access"]
    /\ UNCHANGED <<m_base_addr, m_running, g_proc, g_worker, g_ret, g_calls,
                   g_sig, ringVars, slabVars, lockVars, procVars, schedVars>>

(* ------------------------------ run_self_test -------------------------- *)

\* run_self_test (lines 159-174) up to the write of the value; main runs it
\* after initialize and before the worker is started (main.cpp line 78)
SelfTestCall ==
    /\ MayCall(MainThread)
    /\ m_running
    /\ ~g_worker
    /\ g_calls' = g_calls + 1
    /\ \E r \in {get_ghost_ptr(m_base_addr, SelfTestOffset)} :
         IF r.err # "None"
         THEN /\ g_proc' = "exited"
              /\ UNCHANGED <<g_pc, g_op>>
         ELSE /\ g_op' = [g_op EXCEPT ![MainThread] =
                            [kind |-> "st_w", addr |-> r.val, write |-> TRUE,
                             val |-> SelfTestValue, sig |-> g_sig, faults |-> 0,
                             committed |-> FALSE,
                             fc0 |-> m_fault_count, rp0 |-> m_resident_pages]]
              /\ g_pc' = [g_pc EXCEPT ![MainThread] = "access"]
              /\ UNCHANGED g_proc
    /\ UNCHANGED <<m_base_addr, m_running, m_fault_count, m_resident_pages,
                   g_maps, g_disp, g_worker, g_ret,
                   g_sig, ringVars, slabVars, lockVars, procVars, schedVars>>

\* run_self_test's comparison of the value read back (lines 176-181)
SelfTestCheck(t) ==
    /\ g_proc = "alive"
    /\ g_pc[t] = "st_check"
    /\ IF g_op[t].val = SelfTestValue
       THEN /\ g_pc' = [g_pc EXCEPT ![t] = "idle"]
            /\ g_ret' = [g_ret EXCEPT ![t] = RetOf("run_self_test", g_op[t])]
            /\ g_op' = [g_op EXCEPT ![t] = NoOp]
            /\ UNCHANGED g_proc
       ELSE /\ g_proc' = "exited"
            /\ UNCHANGED <<g_pc, g_op, g_ret>>
    /\ UNCHANGED <<m_base_addr, m_running, m_fault_count, m_resident_pages,
                   g_maps, g_disp, g_worker, g_calls,
                   g_sig, ringVars, slabVars, lockVars, procVars, schedVars>>

(***************************************************************************)
(*        PART 4: the running program (main.cpp, ProcessingUnit.cpp)       *)
(***************************************************************************)

\* number of documents the ingest fiber hands to the worker
MaxAppends == 2

\* MemoryManager::shutdown (MemoryManager.cpp lines 80-89) as part of a step
ShutdownEffect ==
    IF ~m_running
    THEN UNCHANGED <<m_running, g_maps>>
    ELSE /\ m_running' = FALSE
         /\ g_maps' = IF m_base_addr \in ArenaBases
                      THEN [g_maps EXCEPT ![m_base_addr] = NoMap]
                      ELSE g_maps

\* main (main.cpp lines 89-95) has started the worker and enters
\* Scheduler::Run
EnterRun ==
    /\ g_proc = "alive"
    /\ u_pc = "boot"
    /\ g_pc[MainThread] = "idle"
    /\ g_worker
    /\ u_pc' = "main"
    /\ UNCHANGED <<arenaVars, ringVars, slabVars, lockVars, schedVars>>
    /\ UNCHANGED <<pu_running, g_running, ui_done, ui_seen, ghost_offset,
                   q_len, w_pc, w_off, w_docs>>

\* Scheduler::Run (Scheduler.cpp lines 205-212): the main fiber yields, for
\* ever; the ring is main, UI_Fiber, Clip_Fib
RunYield ==
    /\ g_proc = "alive"
    /\ u_pc = "main"
    /\ u_pc' = "ui"
    /\ UNCHANGED <<arenaVars, ringVars, slabVars, lockVars, schedVars>>
    /\ UNCHANGED <<pu_running, g_running, ui_done, ui_seen, ghost_offset,
                   q_len, w_pc, w_off, w_docs>>

\* the keys poll and read deliver to the UI fiber
Keys == {"none", "q"}

\* one turn of the UI fiber (main.cpp lines 25-48, S_Entry lines 186-190): the
\* loop test, the key, and Update (ProcessingUnit.cpp lines 75-84) up to its
\* read of vector_count; a fiber whose function has returned yields at once
UITurn ==
    /\ g_proc = "alive"
    /\ u_pc = "ui"
    /\ g_pc[MainThread] = "idle"
    /\ IF ui_done \/ ~g_running
       THEN /\ ui_done' = TRUE
            /\ u_pc' = "clip"
            /\ UNCHANGED <<g_running, g_pc, g_op>>
       ELSE /\ \E key \in Keys : g_running' = (key # "q")
            /\ UNCHANGED ui_done
            /\ IF ~pu_running \/ m_base_addr = NullAddr
               THEN /\ u_pc' = "clip"
                    /\ UNCHANGED <<g_pc, g_op>>
               ELSE /\ g_op' = [g_op EXCEPT ![MainThread] =
                                  [NoOp EXCEPT !.kind = "ui_cnt",
                                         !.addr = m_base_addr + VectorCountAt,
                                         !.sig = g_sig,
                                         !.fc0 = m_fault_count,
                                         !.rp0 = m_resident_pages]]
                    /\ g_pc' = [g_pc EXCEPT ![MainThread] = "access"]
                    /\ UNCHANGED u_pc
    /\ UNCHANGED <<m_base_addr, m_running, m_fault_count, m_resident_pages,
                   g_maps, g_disp, g_sig, g_proc, g_worker, g_ret, g_calls,
                   ringVars, slabVars, lockVars, schedVars>>
    /\ UNCHANGED <<pu_running, ui_seen, ghost_offset, q_len, w_pc, w_off,
                   w_docs>>

\* one turn of the ingest fiber (main.cpp lines 52-60): a new clipboard text
\* is pushed by Ingest (ProcessingUnit.cpp lines 127-138), or there is none
ClipTurnUpTo(limit) ==
    /\ g_proc = "alive"
    /\ u_pc = "clip"
    /\ u_pc' = "main"
    /\ \/ UNCHANGED q_len
       \/ /\ g_running
          /\ q_len + w_docs < limit
          /\ q_len' = q_len + 1
    /\ UNCHANGED <<arenaVars, ringVars, slabVars, lockVars, schedVars>>
    /\ UNCHANGED <<pu_running, g_running, ui_done, ui_seen, ghost_offset,
                   w_pc, w_off, w_docs>>

ClipTurn == ClipTurnUpTo(MaxAppends)

\* AnalysisWorker's loop (ProcessingUnit.cpp lines 152-162) with the start of
\* ProcessDocument (167-191): the test of m_running, the pop, and for a
\* document with terms and a base address the read of head_offset
WorkerLoop ==
    /\ g_proc = "alive"
    /\ w_pc = "loop"
    /\ g_pc[WorkerThread] = "idle"
    /\ IF ~pu_running
       THEN /\ w_pc' = "done"
            /\ UNCHANGED <<q_len, w_docs, g_pc, g_op>>
       ELSE /\ q_len > 0
            /\ q_len' = q_len - 1
            /\ w_docs' = w_docs + 1
            /\ \/ UNCHANGED <<w_pc, g_pc, g_op>>
               \/ /\ m_base_addr # NullAddr
                  /\ w_pc' = "doc"
                  /\ g_op' = [g_op EXCEPT ![WorkerThread] =
                                [NoOp EXCEPT !.kind = AppendOrder[1],
                                       !.addr = m_base_addr + HeadOffsetAt,
                                       !.sig = g_sig,
                                       !.fc0 = m_fault_count,
                                       !.rp0 = m_resident_pages]]
                  /\ g_pc' = [g_pc EXCEPT ![WorkerThread] = "access"]
    /\ UNCHANGED <<m_base_addr, m_running, m_fault_count, m_resident_pages,
                   g_maps, g_disp, g_sig, g_proc, g_worker, g_ret, g_calls,
                   ringVars, slabVars, lockVars, schedVars>>
    /\ UNCHANGED <<pu_running, g_running, u_pc, ui_done, ui_seen,
                   ghost_offset, w_off>>

\* ~ProcessingUnit (ProcessingUnit.cpp lines 56-58) up to the end of its
\* body, which is Shutdown (lines 140-145); the members are destroyed next
Destroy ==
    /\ g_proc = "alive"
    /\ u_pc \in {"boot", "main"}
    /\ g_pc[MainThread] = "idle"
    /\ u_pc' = "join"
    /\ IF ~pu_running
       THEN UNCHANGED <<pu_running, m_running, g_maps>>
       ELSE /\ pu_running' = FALSE
            /\ ShutdownEffect
    /\ UNCHANGED <<m_base_addr, m_fault_count, m_resident_pages, g_disp,
                   g_sig, g_proc, g_worker, g_pc, g_op, g_ret, g_calls,
                   ringVars, slabVars, lockVars, schedVars>>
    /\ UNCHANGED <<g_running, ui_done, ui_seen, ghost_offset, q_len, w_pc,
                   w_off, w_docs>>

\* the destructor of m_analysis_thread (ProcessingUnit.hpp line 43): a
\* jthread joins its thread, which waits for AnalysisWorker to return; main
\* then returns into exit
Join ==
    /\ g_proc = "alive"
    /\ u_pc = "join"
    /\ w_pc \in {"none", "done"}
    /\ w_pc' = IF w_pc = "done" THEN "joined" ELSE w_pc
    /\ u_pc' = "exit"
    /\ UNCHANGED <<arenaVars, ringVars, slabVars, lockVars, schedVars>>
    /\ UNCHANGED <<pu_running, g_running, ui_done, ui_seen, ghost_offset,
                   q_len, w_off, w_docs>>

\* signal_handler (main.cpp lines 17-21) on SIGINT or SIGTERM, taken by the
\* main thread between two calls: g_running is cleared and exit is called
SignalHandler ==
    /\ g_proc = "alive"
    /\ u_pc \in {"boot", "main", "ui", "clip"}
    /\ g_pc[MainThread] = "idle"
    /\ g_running' = FALSE
    /\ u_pc' = "exit"
    /\ UNCHANGED <<arenaVars, ringVars, slabVars, lockVars, schedVars>>
    /\ UNCHANGED <<pu_running, ui_done, ui_seen, ghost_offset, q_len, w_pc,
                   w_off, w_docs>>

\* exit destroys the objects of static storage: ~MemoryManager
\* (MemoryManager.cpp lines 54-56) calls shutdown
ExitShutdown ==
    /\ g_proc = "alive"
    /\ u_pc = "exit"
    /\ u_pc' = "gone"
    /\ ShutdownEffect
    /\ UNCHANGED <<m_base_addr, m_fault_count, m_resident_pages, g_disp,
                   g_sig, g_proc, g_worker, g_pc, g_op, g_ret, g_calls,
                   ringVars, slabVars, lockVars, schedVars>>
    /\ UNCHANGED <<pu_running, g_running, ui_done, ui_seen, ghost_offset,
                   q_len, w_pc, w_off, w_docs>>

\* exit ends the process, and with it every thread
ProcessEnd ==
    /\ g_proc = "alive"
    /\ u_pc = "gone"
    /\ g_proc' = "exited"
    /\ UNCHANGED <<m_base_addr, m_running, m_fault_count, m_resident_pages,
                   g_maps, g_disp, g_sig, g_worker, g_pc, g_op, g_ret,
                   g_calls, ringVars, slabVars, lockVars, procVars, schedVars>>

(***************************************************************************)
(*             PART 5: the fiber scheduler (Scheduler.cpp)                 *)
(***************************************************************************)

\* fibers spawned besides the main fiber, and the most a closure yields
MaxFibers == 2
MaxYields == 5

\* nullptr for a Fiber*
NullFiber == -1

\* the stack size Spawn asks for (line 83: 1 MiB), scaled
StackSize == 16 * WordSize
\* where mmap places the stacks (Fiber::Fiber line 26), fiber id's at
\* StackArea + id * StackSize; the top of the main thread's own stack lies
\* below them, the code and the heap of closures lower still
StackArea == 16384
MainStackTop == StackArea - StackSize
HeapArea == StackArea \div 2
CodeBase == StackArea \div 4

\* the places of the code a return address can lead to: S_Entry's start,
\* Yield after its switch_context, and after a call of Yield the loop of
\* Run, the loop of a closure and the loop at the end of S_Entry
Code == <<"S_Entry", "Yield", "run", "entry", "tramp">>
CodeAddr(label) == CodeBase + (CHOOSE i \in DOMAIN Code : Code[i] = label)
LabelOf(addr) ==
    IF addr - CodeBase \in DOMAIN Code THEN Code[addr - CodeBase] ELSE "wild"

StackBase(id) == StackArea + id * StackSize

\* Fiber::Fiber (lines 35-37): the end of the block, aligned down to 16
InitialSP(stack_base) ==
    (stack_base + StackSize) - BitAnd(stack_base + StackSize, 15)

StackTop(o) == IF o = 0 THEN MainStackTop ELSE InitialSP(StackBase(o))

\* the stack an address lies on: 0 the main thread's, else the fiber's id
Owner(sp) ==
    IF sp <= MainStackTop THEN 0 ELSE (sp - StackArea - 1) \div StackSize

\* the frame with task_ptr in the slot of another register (a faulty
\* variant: R13 for R12)
ForgedFrameR13(task_ptr) == <<CodeAddr("S_Entry"), 0, 0, 0, task_ptr, 0, 0>>

\* the frame with the return address pushed last (a faulty variant)
ForgedFrameRetLast(task_ptr) == <<0, 0, task_ptr, 0, 0, 0, CodeAddr("S_Entry")>>

\* the frame Spawn forges (lines 117-125, x86_64), in push order: the return
\* address S_Entry, then RBX, RBP, R12 = task_ptr, R13, R14, R15
ForgedFrame(task_ptr) == <<CodeAddr("S_Entry"), 0, 0, task_ptr, 0, 0, 0>>

\* the frame Spawn forges on AArch64 (lines 139-155), in push order: X20,
\* X19 = task_ptr, X22, X21, X24, X23, X26, X25, X28, X27, X30 = S_Entry, X29
ForgedFrameA64(task_ptr) ==
    <<0, task_ptr, 0, 0, 0, 0, 0, 0, 0, 0, CodeAddr("S_Entry"), 0>>

\* what the restore sequence of switch_context leaves when it runs on the
\* words stk: x86_64 pops R15, R14, R13, R12, RBP, RBX and returns; AArch64
\* loads the pairs X29/X30, X27/X28, ... X19/X20 from rising addresses and
\* returns to X30.  carrier is the register S_Entry reads, others the rest
\* of the callee-saved set, ret the address returned to, size the bytes the
\* sequence takes off the stack
Restore(stk) ==
    LET n == Len(stk)
    IN  [carrier |-> stk[n - 3],
         others |-> <<stk[n], stk[n - 1], stk[n - 2], stk[n - 4], stk[n - 5]>>,
         ret |-> stk[n - 6],
         size |-> 7 * WordSize]
RestoreA64(stk) ==
    LET n == Len(stk)
    IN  [carrier |-> stk[n - 10],
         others |-> <<stk[n], stk[n - 2], stk[n - 3], stk[n - 4], stk[n - 5],
                      stk[n - 6], stk[n - 7], stk[n - 8], stk[n - 9],
                      stk[n - 11]>>,
         ret |-> stk[n - 1],
         size |-> 12 * WordSize]

\* the index stepping backwards (a faulty variant)
NextIdxBack(idx, n) == (idx + n - 1) % n

\* Yield's round robin (line 197)
NextIdx(idx, n) == (idx + 1) % n

\* the stack pointer saved into the record of the fiber switched to (a
\* faulty variant: &current_fiber->stack_ptr)
SavedIntoCurrent(prev, cur) == cur

\* the record switch_context saves the stack pointer into (line 202:
\* &prev->stack_ptr)
SavedInto(prev, cur) == prev

\* the state before Scheduler::Init (Scheduler.hpp lines 45-48)
SchedStart ==
    /\ fibers = << >>
    /\ current_fiber = NullFiber
    /\ current_idx = 0
    /\ stacks = [o \in 0 .. MaxFibers |-> << >>]
    /\ frames = [o \in 0 .. MaxFibers |-> [func |-> 0, left |-> 0]]
    /\ cpu_sp = MainStackTop
    /\ cpu_r12 = 0
    /\ cpu_pc = "main"
    /\ tasks = << >>
    /\ trace = << >>
    /\ susp_sp = [o \in 0 .. MaxFibers |-> 0]

\* the second half of switch_context: the stack pointer is loaded, the
\* callee-saved registers are popped from the new stack and the return
\* address on it is returned to; when that is Yield's, Yield returns to its
\* caller.  stks are the stacks after the first half.
Resume(sp, stks) ==
    LET to == Owner(sp)
    IN  IF \/ to \notin DOMAIN stks
           \/ sp # StackTop(to) - WordSize * Len(stks[to])
           \/ Len(stks[to]) < 7
        THEN /\ cpu_pc' = "wild"
             /\ cpu_sp' = sp
             /\ stacks' = stks
             /\ UNCHANGED cpu_r12
        ELSE LET stk == stks[to]
                 n   == Len(stk)
             IN  /\ cpu_r12' = stk[n - 3]
                 /\ IF LabelOf(stk[n - 6]) = "Yield" /\ n >= 8
                    THEN /\ cpu_pc' = LabelOf(stk[n - 7])
                         /\ cpu_sp' = sp + 8 * WordSize
                         /\ stacks' = [stks EXCEPT ![to] = SubSeq(stk, 1, n - 8)]
                    ELSE /\ cpu_pc' = LabelOf(stk[n - 6])
                         /\ cpu_sp' = sp + 7 * WordSize
                         /\ stacks' = [stks EXCEPT ![to] = SubSeq(stk, 1, n - 7)]

\* Yield (lines 193-203) called from the code at cont, fibs being the fiber
\* records at the call; with the first half of switch_context: the return
\* address and the callee-saved registers are pushed on the running stack
\* and the stack pointer is stored through old_sp
YieldFrom(cont, fibs) ==
    LET prev == current_fiber
        idx  == NextIdx(current_idx, Len(fibs))
        cur  == fibs[idx + 1].id
        me   == Owner(cpu_sp)
        grown == stacks[me] \o <<CodeAddr(cont), CodeAddr("Yield"),
                                  0, 0, cpu_r12, 0, 0, 0>>
        saved  == cpu_sp - 8 * WordSize
        into   == SavedInto(prev, cur)
    IN  /\ current_idx' = idx
        /\ current_fiber' = cur
        /\ IF prev = cur
           THEN /\ cpu_pc' = cont
                /\ fibers' = fibs
                /\ UNCHANGED <<stacks, cpu_sp, cpu_r12, susp_sp>>
           ELSE /\ fibers' = [fibs EXCEPT ![into + 1].stack_ptr = saved]
                /\ susp_sp' = [susp_sp EXCEPT ![me] = saved]
                /\ Resume(fibs[cur + 1].stack_ptr,
                          [stacks EXCEPT ![me] = grown])

\* Scheduler::Init (lines 51-61): the main thread becomes fiber 0
SchedInit ==
    /\ cpu_pc = "main"
    /\ fibers = << >>
    /\ fibers' = <<[id |-> 0, stack_ptr |-> 0, stack_base |-> 0,
                    stack_size |-> 0, is_completed |-> FALSE]>>
    /\ current_fiber' = 0
    /\ UNCHANGED <<current_idx, stacks, frames, cpu_sp, cpu_r12, cpu_pc,
                   tasks, trace, susp_sp>>
    /\ UNCHANGED <<ringVars, slabVars, lockVars, arenaVars, procVars>>

\* what a call of Spawn meets: a stack and an entry, no stack (mmap fails,
\* Fiber::Fiber lines 28-31), or a null entry (lines 94-97)
SpawnOutcomes == {"ok", "mmap_failed", "null_entry"}

\* Spawn (lines 82-163), called by main before Run, with an entry that
\* appends the running fiber's id and yields, iters times
Spawn ==
    /\ cpu_pc = "main"
    /\ fibers # << >>
    /\ Len(fibers) <= MaxFibers
    /\ \E outcome \in SpawnOutcomes, iters \in 0 .. MaxYields :
          IF outcome # "ok"
          THEN /\ cpu_pc' = "exited"
               /\ UNCHANGED <<fibers, stacks, tasks, susp_sp>>
          ELSE LET id == Len(fibers)
                   task_ptr == HeapArea + Len(tasks) + 1
                   frame == ForgedFrame(task_ptr)
                   sp == InitialSP(StackBase(id)) - WordSize * Len(frame)
               IN  /\ tasks' = Append(tasks, [iters |-> iters, calls |-> 0,
                                              frees |-> 0, fiber |-> id])
                   /\ stacks' = [stacks EXCEPT ![id] = frame]
                   /\ fibers' = Append(fibers,
                                   [id |-> id, stack_ptr |-> sp,
                                    stack_base |-> StackBase(id),
                                    stack_size |-> StackSize,
                                    is_completed |-> FALSE])
                   /\ susp_sp' = [susp_sp EXCEPT ![id] = sp]
                   /\ UNCHANGED cpu_pc
    /\ UNCHANGED <<current_fiber, current_idx, frames, cpu_sp, cpu_r12, trace>>
    /\ UNCHANGED <<ringVars, slabVars, lockVars, arenaVars, procVars>>

\* Scheduler::Run (lines 205-212): one turn of its loop
Run ==
    /\ cpu_pc \in {"main", "run"}
    /\ fibers # << >>
    /\ YieldFrom("run", fibers)
    /\ UNCHANGED <<frames, tasks, trace>>
    /\ UNCHANGED <<ringVars, slabVars, lockVars, arenaVars, procVars>>

\* S_Entry (lines 166-182): func is read from the register and, when it is
\* not null, called
S_Entry ==
    /\ cpu_pc = "S_Entry"
    /\ LET me == Owner(cpu_sp)
           i  == cpu_r12 - HeapArea
       IN  IF i \in DOMAIN tasks
           THEN /\ frames' = [frames EXCEPT ![me] =
                                [func |-> cpu_r12, left |-> tasks[i].iters]]
                /\ tasks' = [tasks EXCEPT ![i].calls = @ + 1]
                /\ cpu_pc' = "entry"
           ELSE /\ frames' = [frames EXCEPT ![me].func = 0]
                /\ cpu_pc' = IF cpu_r12 = 0 THEN "tramp" ELSE "wild"
                /\ UNCHANGED tasks
    /\ UNCHANGED <<fibers, current_fiber, current_idx, stacks, cpu_sp,
                   cpu_r12, trace, susp_sp>>
    /\ UNCHANGED <<ringVars, slabVars, lockVars, arenaVars, procVars>>

\* the entry's loop: the id of Current() is appended and the fiber yields
EntryYield ==
    /\ cpu_pc = "entry"
    /\ frames[Owner(cpu_sp)].left > 0
    /\ trace' = Append(trace, fibers[current_fiber + 1].id)
    /\ frames' = [frames EXCEPT ![Owner(cpu_sp)].left = @ - 1]
    /\ YieldFrom("entry", fibers)
    /\ UNCHANGED tasks
    /\ UNCHANGED <<ringVars, slabVars, lockVars, arenaVars, procVars>>

\* the entry returns into S_Entry, which deletes func (lines 182-184)
EntryReturn ==
    /\ cpu_pc = "entry"
    /\ frames[Owner(cpu_sp)].left = 0
    /\ tasks' = [tasks EXCEPT
                   ![frames[Owner(cpu_sp)].func - HeapArea].frees = @ + 1]
    /\ cpu_pc' = "tramp"
    /\ UNCHANGED <<fibers, current_fiber, current_idx, stacks, frames, cpu_sp,
                   cpu_r12, trace, susp_sp>>
    /\ UNCHANGED <<ringVars, slabVars, lockVars, arenaVars, procVars>>

\* the loop that ends S_Entry (lines 187-190): Current() is marked completed
\* and the fiber yields
TrampLoop ==
    /\ cpu_pc = "tramp"
    /\ YieldFrom("tramp",
                 [fibers EXCEPT ![current_fiber + 1].is_completed = TRUE])
    /\ UNCHANGED <<frames, tasks, trace>>
    /\ UNCHANGED <<ringVars, slabVars, lockVars, arenaVars, procVars>>

(***************************************************************************)
(*                            Specifications                               *)
(***************************************************************************)

\* the ring buffer with its producer and consumer (the allocator at rest)
InitRing ==
    /\ RingInit
    /\ SlabConstructed(4096, ALIGNMENT * HeapUnits, ALIGNMENT)
    /\ s_req = Unrecorded
    /\ ArenaInit
    /\ SchedStart

NextRing == ProducerStep \/ ConsumerStep

SpecRing == InitRing /\ [][NextRing]_vars

\* the input queue as the program uses it: Ingest (ProcessingUnit.cpp lines
\* 127-138) pushes each text once and does not look at what push returns,
\* AnalysisWorker (lines 152-162) pops and hands what it got to
\* ProcessDocument; the worker thread is scheduled fairly
IngestStep == ProducerStep

AnalysisWorkerStep ==
    PopLoadHead \/ PopLoadTail \/ PopEmpty \/ PopReadSlot \/ PopStoreHead

NextIngest == IngestStep \/ AnalysisWorkerStep

SpecIngest == InitRing /\ [][NextIngest]_vars

FairIngest == SpecIngest /\ WF_vars(AnalysisWorkerStep)

\* the allocator under any sequence of calls (the ring buffer at rest)
InitSlab == RingInit /\ SlabInit /\ ArenaInit /\ SchedStart

NextSlab == Allocate \/ Free

SpecSlab == InitSlab /\ [][NextSlab]_vars

\* the same calls with the size of every live allocation recorded
InitSlabRecording == RingInit /\ SlabInitRecording /\ ArenaInit /\ SchedStart

SpecSlabRecording == InitSlabRecording /\ [][NextSlab]_vars

\* the allocator called by several threads, each call under the Spinlock
NextLock ==
    \E t \in Threads :
        CallBegin(t) \/ LockAcquire(t) \/ LockedBody(t) \/ LockRelease(t)

SpecLock == InitSlab /\ [][NextLock]_vars

\* the arena under the calls of main and the worker (the rest at rest)
InitArena ==
    /\ RingInit
    /\ SlabConstructed(4096, ALIGNMENT * HeapUnits, ALIGNMENT)
    /\ s_req = Unrecorded
    /\ \E sig \in Signals : ArenaInitOn(sig)
    /\ SchedStart

NextArena ==
    \/ InitializeCall
    \/ Shutdown
    \/ Start
    \/ SelfTestCall
    \/ \E t \in Threads :
          \/ InitializeHeader(t)
          \/ SelfTestCheck(t)
          \/ GetGhostPtr(t)
          \/ AccessBegin(t)
          \/ Access(t)
          \/ Fault(t)
          \/ Handler(t)

SpecArena == InitArena /\ [][NextArena]_vars

\* the program as main.cpp runs it: the arena booted, the worker started, the
\* fibers taking turns on the main thread, and the ways the process ends
InitRuntime == InitArena

MainStep ==
    \/ EnterRun
    \/ RunYield
    \/ UITurn
    \/ ClipTurn
    \/ Join
    \/ ExitShutdown
    \/ ProcessEnd
    \/ InitializeHeader(MainThread)
    \/ SelfTestCheck(MainThread)
    \/ Access(MainThread)
    \/ Fault(MainThread)
    \/ Handler(MainThread)

WorkerStep ==
    \/ WorkerLoop
    \/ Access(WorkerThread)
    \/ Fault(WorkerThread)
    \/ Handler(WorkerThread)

\* main's calls before Run, in its order (main.cpp lines 74, 78, 81 and 94):
\* initialize, run_self_test, the constructor's initialize, Start
BootOrder == <<"initialize", "run_self_test", "initialize", "Start">>
BootNext(name) ==
    /\ u_pc = "boot"
    /\ g_calls < Len(BootOrder)
    /\ BootOrder[g_calls + 1] = name

NextRuntime ==
    \/ BootNext("initialize") /\ InitializeCall
    \/ BootNext("run_self_test") /\ SelfTestCall
    \/ BootNext("Start") /\ Start
    \/ Destroy
    \/ SignalHandler
    \/ MainStep
    \/ WorkerStep

SpecRuntime == InitRuntime /\ [][NextRuntime]_vars

\* the same under fair scheduling: a thread that can take a step does
FairRuntime ==
    SpecRuntime /\ WF_vars(MainStep) /\ WF_vars(WorkerStep)

\* the scheduler on the main thread: Init, the spawns, Run and the fibers
InitSched ==
    /\ RingInit
    /\ SlabConstructed(4096, ALIGNMENT * HeapUnits, ALIGNMENT)
    /\ s_req = Unrecorded
    /\ ArenaInit
    /\ SchedStart

\* the program with documents enough to fill the arena: one more than the
\* records that fit behind the header
MaxRecords == (GHOST_SPACE_SIZE - SizeofMemoryHeader) \div EntrySize + 1

NextAppend ==
    \/ BootNext("initialize") /\ InitializeCall
    \/ BootNext("run_self_test") /\ SelfTestCall
    \/ BootNext("Start") /\ Start
    \/ EnterRun
    \/ RunYield
    \/ UITurn
    \/ ClipTurnUpTo(MaxRecords)
    \/ InitializeHeader(MainThread)
    \/ SelfTestCheck(MainThread)
    \/ Access(MainThread)
    \/ Fault(MainThread)
    \/ Handler(MainThread)
    \/ WorkerStep

\* (on a platform whose invalid accesses raise SIGSEGV)
InitAppend == InitSched

SpecAppend == InitAppend /\ [][NextAppend]_vars

NextSched ==
    \/ SchedInit
    \/ Spawn
    \/ Run
    \/ S_Entry
    \/ EntryYield
    \/ EntryReturn
    \/ TrampLoop

SpecSched == InitSched /\ [][NextSched]_vars

(***************************************************************************)
(*                  Properties of the LockFreeRingBuffer                   *)
(***************************************************************************)

\* s is an initial segment of t
IsPrefix(s, t) ==
    /\ Len(s) <= Len(t)
    /\ \A i \in 1..Len(s) : s[i] = t[i]

\* C1: with one producer and one consumer interleaved in any way, the values
\* returned by successful pops are, in order, an initial segment of the
\* values accepted by successful pushes: first in first out, nothing
\* invented, nothing returned twice.
C1_PoppedIsPrefixOfPushed == IsPrefix(popped, pushed)

\* C1 witness: the indices have wrapped, and a push and a pop are both
\* between their slot access and their index store.
C1_Witness ==
    /\ Len(popped) > Capacity
    /\ p_pc = "store_tail"
    /\ c_pc = "store_head"

\* C2: a push returns false exactly when (tail + 1) mod Capacity equals the
\* head it read, and then head, tail and the slots are as they were; any
\* other push has stored its value in slot[tail], advances tail by one
\* modulo Capacity and returns true; the buffer never holds more than
\* Capacity - 1 values.
C2_PushContract ==
    /\ [](Len(pushed) - Len(popped) <= Capacity - 1)
    /\ [][ /\ (p_pc = "check" /\ p_pc' = "idle") =>
                /\ p_ret' = "full"
                /\ (p_tail + 1) % Capacity = p_head
                /\ UNCHANGED <<m_head, m_tail, m_buffer>>
           /\ (p_pc = "check" /\ p_pc' = "store_tail") =>
                /\ (p_tail + 1) % Capacity # p_head
                /\ m_buffer' = [m_buffer EXCEPT ![m_tail] = p_item]
           /\ (p_pc = "store_tail" /\ p_pc' = "idle") =>
                /\ p_ret' = "ok"
                /\ (p_tail + 1) % Capacity # p_head
                /\ m_buffer[m_tail] = p_item
                /\ m_tail' = (m_tail + 1) % Capacity
                /\ UNCHANGED m_buffer
         ]_vars

\* C2 witness: a push has returned false on a buffer holding Capacity - 1
\* values, after earlier pushes succeeded around the end of the array.
C2_Witness ==
    /\ p_pc = "idle"
    /\ p_ret = "full"
    /\ Len(pushed) - Len(popped) = Capacity - 1
    /\ Len(pushed) > Capacity

\* C3: pop returns empty, and peek returns null, exactly when the head and
\* the tail they read are equal; otherwise both yield the value of
\* slot[head]; pop then advances head by one modulo Capacity and peek
\* changes nothing, so that a pop directly after a non-null peek returns the
\* value peeked.
C3_PopPeekContract ==
    /\ []((c_pc = "idle" /\ c_op = "pop" /\ c_prev # None) => c_ret = c_prev)
    /\ [][ /\ (c_pc = "check" /\ c_op = "pop" /\ c_pc' = "idle") =>
                /\ c_head = c_tail
                /\ c_ret' = None
                /\ UNCHANGED <<m_head, m_tail, m_buffer>>
           /\ (c_pc = "store_head" /\ c_pc' = "idle") =>
                /\ c_head # c_tail
                /\ c_ret' = m_buffer[m_head]
                /\ c_ret' # None
                /\ m_head' = (m_head + 1) % Capacity
                /\ UNCHANGED <<m_tail, m_buffer>>
           /\ (c_pc = "check" /\ c_op = "peek" /\ c_pc' = "idle") =>
                /\ c_ret' = IF c_head = c_tail THEN None ELSE m_buffer[m_head]
                /\ (c_head # c_tail) => c_ret' # None
                /\ UNCHANGED <<m_head, m_tail, m_buffer>>
         ]_vars

\* C3 witness: a pop directly after a non-null peek has returned, the head
\* having wrapped, while a push is in progress.
C3_Witness ==
    /\ c_pc = "idle"
    /\ c_op = "pop"
    /\ c_prev # None
    /\ c_ret = c_prev
    /\ Len(popped) > Capacity
    /\ p_pc = "store_tail"

\* the results of the scenario's calls (1: push returned true, 0: push
\* returned false or pop returned empty, else the value popped)
ScenarioAsStated == <<1, 1, 1, 1, 1, 1, 0, 2, 3, 4, 1, 1, 1, 5, 6, 7, 8, 9, 0>>
ScenarioAsRun == <<1, 1, 1, 1, 1, 0, 0, 2, 3, 4, 1, 1, 1, 7, 8, 9, 0, 0, 0>>

\* C4 as stated: with capacity 4, push 1, 2, 3 succeed; pop returns 1; push
\* 4, 5 succeed and push 6 returns false; three pops return 2, 3, 4; push 7,
\* 8, 9 succeed; five pops return 5, 6, 7, 8, 9 and a further pop is empty.
C4_AsStated == (sc_pos = Len(Scenario)) => sc_res = ScenarioAsStated

\* C4: with capacity 4, push 1, 2, 3 succeed; pop returns 1; push 4
\* succeeds; push 5 and push 6 return false (three values are held); three
\* pops return 2, 3, 4; push 7, 8, 9 succeed; three pops return 7, 8, 9 and
\* the further pops are empty.
C4_ScenarioAsRun == (sc_pos = Len(Scenario)) => sc_res = ScenarioAsRun

\* C4 witness: the scenario's calls have all been made, one after the other.
C4_Witness == sc_pos = Len(Scenario) /\ Len(sc_res) = Len(Scenario)


\* the producer is about to write, or has written and not yet published,
\* slot i; the consumer is about to read, or has read and not yet released,
\* slot i
ProducerAt(i) ==
    /\ p_tail = i
    /\ \/ p_pc = "check" /\ ~IsFull(NextIndex(p_tail), p_head)
       \/ p_pc = "store_tail"
ConsumerAt(i) ==
    /\ c_head = i
    /\ \/ c_pc = "check" /\ ~IsEmpty(c_head, c_tail)
       \/ c_pc = "store_head"

\* C29: within push the slot is written before the new tail is stored, and
\* within pop the slot is read before the new head is stored; so in every
\* interleaving the producer and the consumer are never at the same slot,
\* what the consumer reads from a slot is the value the producer published
\* there for this lap, and a slot the producer writes holds no value that
\* is still to be popped.
C29_SlotAccessOrdered ==
    /\ [](\A i \in 0 .. Capacity - 1 : ~(ProducerAt(i) /\ ConsumerAt(i)))
    /\ [][/\ (p_pc = "store_tail" /\ p_pc' = "idle")
                => /\ m_buffer[p_tail] = p_item
                   /\ m_tail = p_tail
                   /\ m_tail' # m_tail
          /\ (c_pc = "store_head" /\ c_pc' = "idle")
                => /\ c_item = m_buffer[c_head]
                   /\ m_head = c_head
                   /\ m_head' # m_head
          /\ (p_pc = "check" /\ p_pc' = "store_tail")
                => /\ m_tail = p_tail
                   /\ \A k \in Len(popped) + 1 .. Len(pushed) :
                         m_buffer[p_tail] # pushed[k]
          /\ (c_pc = "check" /\ c_op = "pop" /\ c_pc' = "store_head")
                => /\ Len(pushed) > Len(popped)
                   /\ c_item' = pushed[Len(popped) + 1]
          /\ (c_pc = "check" /\ c_op = "peek" /\ c_pc' = "idle" /\ c_ret' # None)
                => /\ Len(pushed) > Len(popped)
                   /\ c_ret' = pushed[Len(popped) + 1]
         ]_vars

\* the consumer reads the slot the producer wrote one lap before, while the
\* producer is at the next slot
C29_Witness ==
    /\ c_pc = "store_head"
    /\ Len(popped) >= Capacity
    /\ p_pc = "store_tail"
    /\ p_tail = NextIndex(c_head)

\* the consumer holds the pointer a non-null peek returned: from the return
\* of the peek to the return of the pop that follows it
PeekedAt(i) ==
    /\ c_head = i
    /\ \/ c_op = "peek" /\ c_pc = "idle" /\ c_ret # None
       \/ c_op = "pop" /\ c_pc # "idle" /\ c_prev # None

\* the value the pointer was read through when peek returned
Peeked == IF c_op = "peek" THEN c_ret ELSE c_prev

\* C30: a non-null pointer returned by peek stays valid while pushes go on:
\* from the peek until the consumer's next pop the slot keeps the value, no
\* push writes it, and the next pop returns that value.
C30_PeekStaysValid ==
    /\ [](\A i \in 0 .. Capacity - 1 :
             PeekedAt(i) => /\ m_head = i
                            /\ m_buffer[i] = Peeked
                            /\ ~ProducerAt(i))
    /\ [][/\ \A i \in 0 .. Capacity - 1 :
                PeekedAt(i) => m_buffer'[i] = m_buffer[i]
          /\ (c_op = "pop" /\ c_prev # None /\ c_pc # "idle" /\ c_pc' = "idle")
                => c_ret' = c_prev
         ]_vars

\* a pointer is held while the producer has published two more values and
\* is writing a third
C30_Witness ==
    /\ c_op = "peek"
    /\ c_pc = "idle"
    /\ c_ret # None
    /\ Len(pushed) - Len(popped) = Capacity - 2
    /\ p_pc = "store_tail"
    /\ Len(popped) >= Capacity

(***************************************************************************)
(*                     Properties of the SlabAllocator                     *)
(***************************************************************************)

\* the end of the giant block Init() wrote
HeapEnd == FirstBlock + InitialSize

\* the block offsets met walking from o by header sizes up to HeapEnd;
\* Broken ends the walk where a header is not a block inside the heap
RECURSIVE BlockWalk(_, _)
BlockWalk(o, fuel) ==
    IF o = HeapEnd THEN <<>>
    ELSE IF fuel = 0 \/ ~Tracked(o) THEN <<Broken>>
    ELSE IF s_mem[o] = Unknown \/ GetSize(s_mem[o]) <= 0
            \/ o + GetSize(s_mem[o]) > HeapEnd
    THEN <<Broken>>
    ELSE <<o>> \o BlockWalk(o + GetSize(s_mem[o]), fuel - 1)

Blocks == BlockWalk(FirstBlock, Cardinality(DOMAIN s_mem))

\* the blocks of the walk, without the marker
BlockSet == {Blocks[i] : i \in 1..Len(Blocks)} \ {Broken}

FreeBlocks == {b \in BlockSet : IsFree(s_mem[b])}

RECURSIVE SumSizes(_)
SumSizes(S) ==
    IF S = {} THEN 0
    ELSE LET b == CHOOSE x \in S : TRUE
         IN GetSize(s_mem[b]) + SumSizes(S \ {b})

\* C5: after construction and after any sequence of Allocate and Free calls,
\* the footer of every block equals its header, size and free bit.
C5_FooterEqualsHeader ==
    HeapExists =>
        \A b \in BlockSet :
            Load([mem |-> s_mem], b + GetSize(s_mem[b]) - FooterSize) = s_mem[b]

\* C6: the blocks tile the heap: walking from the first block by header
\* sizes ends exactly at the heap's end, and the sizes add up to the size of
\* the initial giant block.
C6_BlocksTileHeap ==
    HeapExists =>
        /\ Len(Blocks) > 0
        /\ \A i \in 1..Len(Blocks) : Blocks[i] # Broken
        /\ SumSizes(BlockSet) = InitialSize

\* C7: no two adjacent blocks are both free.
C7_NoAdjacentFree ==
    HeapExists =>
        \A i \in 1..(Len(Blocks) - 1) :
            ~(/\ Blocks[i] # Broken
              /\ Blocks[i + 1] # Broken
              /\ IsFree(s_mem[Blocks[i]])
              /\ IsFree(s_mem[Blocks[i + 1]]))

\* C8: the blocks reachable from the free-list head are exactly the blocks
\* whose free bit is set, each of them once.
C8_FreeListIsFreeBlocks ==
    HeapExists =>
        /\ \A i \in 1..Len(FreeList) : FreeList[i] # Broken
        /\ \A i, j \in 1..Len(FreeList) : FreeList[i] = FreeList[j] => i = j
        /\ {FreeList[i] : i \in 1..Len(FreeList)} = FreeBlocks

\* C9: for every n > 0, a non-zero result of Allocate(n) is the offset of a
\* block plus sizeof(BlockHeader), is a multiple of 64, and the block has at
\* least n bytes between the end of its header and the start of its footer.
C9_AllocateResult ==
    (~s_wild /\ s_last.op = "alloc" /\ s_last.n # 0 /\ s_last.ret # 0) =>
        /\ s_last.ret - HeaderSize \in BlockSet
        /\ s_last.ret % ALIGNMENT = 0
        /\ U64Ge(GetSize(Load([mem |-> s_mem], s_last.ret - HeaderSize))
                 - HeaderSize - FooterSize, s_last.n)

\* C10: for every region and every base offset, Allocate(n) with n > 0
\* returns 0 only when no free block has a total size of at least the
\* required size, and a failed Allocate leaves the heap and the free list
\* as they were.
C10_ZeroOnlyOnExhaustion ==
    (/\ HeapExists
     /\ ~s_wild
     /\ s_last.op = "alloc"
     /\ s_last.n # 0
     /\ s_last.ret = 0) =>
        /\ \A b \in FreeBlocks :
              ~U64Ge(GetSize(s_mem[b]), RequiredTotalSize(s_last.n))
        /\ s_last.same

\* C11: Free(p) of a payload offset whose block header has the free bit set
\* already (a double free) changes nothing: no word of the heap (header,
\* footer, free-list link) and not the free-list head.
C11_DoubleFreeIgnored ==
    [][(/\ s_calls' # s_calls
        /\ s_last'.op = "free"
        /\ Tracked(s_last'.n - HeaderSize)
        /\ s_mem[s_last'.n - HeaderSize] # Unknown
        /\ IsFree(s_mem[s_last'.n - HeaderSize]))
       => (UNCHANGED <<s_mem, s_head, s_wild>> /\ s_last'.same)]_vars

\* C11 witness: Free(p) directly after Free(p) has returned, on a heap that
\* holds another live allocation.
C11_Witness ==
    /\ s_last.op = "free"
    /\ s_last.same
    /\ ~s_wild
    /\ s_last.n \notin s_live
    /\ s_live # {}
    /\ IsFree(s_mem[s_last.n - HeaderSize])

\* C12: from any reachable state, p = Allocate(n) followed by Free(p),
\* repeated any number of times with any n that is satisfied, ends with the
\* total free bytes (the sum of the sizes of the blocks on the free list)
\* equal to the total before the first Allocate.
C12_AllocFreeKeepsFreeBytes ==
    (~s_wild /\ s_round.k > 0 /\ s_round.open = 0) => FreeBytes = s_round.base

\* the payload offset a first-fit scan of the free list returns for a
\* required size: that of the first listed block at least that large, 0 when
\* the list ends first (Unknown when the list leaves the written words first)
RECURSIVE FirstFitting(_, _, _)
FirstFitting(list, i, required) ==
    IF i > Len(list) THEN 0
    ELSE IF list[i] = Unknown \/ ~Tracked(list[i]) THEN Unknown
    ELSE IF s_mem[list[i]] = Unknown THEN Unknown
    ELSE IF U64Ge(GetSize(s_mem[list[i]]), required) THEN list[i] + HeaderSize
    ELSE FirstFitting(list, i + 1, required)

\* C13: Allocate is first-fit in free-list order: it returns the payload of
\* the first block, from the free-list head along next_offset, whose size
\* is at least the required size (0 when there is none); and after three
\* allocations of one size on a fresh heap, freeing the middle one and
\* allocating that size again returns the middle offset.
C13_FirstFit ==
    /\ [](s_mid.pos = 5 => s_mid.r = s_mid.b)
    /\ [][(/\ s_calls' # s_calls
           /\ s_last'.op = "alloc"
           /\ s_last'.n # 0
           /\ ~s_wild')
          => s_last'.ret =
                FirstFitting(FreeList, 1, RequiredTotalSize(s_last'.n))]_vars

\* C13 witness: the scenario has been run with three distinct blocks and an
\* ordinary size, the freed middle block being the list's head with the
\* heap's free remainder listed behind it.
C13_Witness ==
    /\ s_mid.pos = 5
    /\ s_mid.n > 0
    /\ Cardinality({s_mid.a, s_mid.b, s_mid.c}) = 3
    /\ s_mid.r = s_mid.b
    /\ s_head # 0
    /\ ~s_wild

\* C14: on a fresh heap, once every live allocation has been freed, in any
\* order (A, B, C allocated and freed in the order A, C, B for one), the
\* free list holds exactly one block, at the first block offset, whose size
\* is the initial heap size.
C14_AllFreedIsOneBlock ==
    (/\ HeapExists
     /\ ~s_wild
     /\ s_last.op = "free"
     /\ s_live = {}) =>
        /\ FreeList = <<FirstBlock>>
        /\ s_mem[FirstBlock] = SetWord(InitialSize, TRUE)

\* at most one thread is between lock acquisition and release
MutualExclusion ==
    /\ Cardinality({t \in Threads : l_pc[t] \in {"held", "done"}}) <= 1
    /\ (\E t \in Threads : l_pc[t] \in {"held", "done"}) => l_flag

\* C15: when several threads call Allocate and Free concurrently, at most
\* one thread at a time is between lock acquisition and release, and all
\* slab invariants (footers equal headers, the blocks tile the heap, no two
\* adjacent free blocks, the free list is the free blocks) hold whenever the
\* lock is free.
C15_LockedCallsKeepInvariants ==
    /\ MutualExclusion
    /\ ~l_flag =>
         (/\ C5_FooterEqualsHeader
          /\ C6_BlocksTileHeap
          /\ C7_NoAdjacentFree
          /\ C8_FreeListIsFreeBlocks)


(***************************************************************************)
(*                       Properties of the ghost arena                     *)
(***************************************************************************)

\* thread t's step is the run of the signal handler
HandlerStep(t) == g_pc[t] = "handler" /\ g_pc'[t] # "handler"

\* the arena is in place at base b: reserved there and not shut down
ArenaAt(b) == b \in ArenaBases /\ m_base_addr = b /\ g_maps[b].mapped

\* C16: when an access at an address A inside [B, B + S) faults and the
\* handler commits, exactly the page containing A becomes read-write, both
\* counters grow by one, no other page's access, no word of the arena and no
\* other mapping changes, and the handler returns to the access, which is
\* executed again and (the arena not being shut down meanwhile) goes through.
C16_FaultCommitsOnePage ==
    /\ [][\A t \in Threads :
            (/\ HandlerStep(t)
             /\ g_op'[t].committed
             /\ g_op[t].addr >= m_base_addr
             /\ g_op[t].addr < m_base_addr + GHOST_SPACE_SIZE)
            => /\ ArenaAt(m_base_addr)
               /\ g_maps'[m_base_addr].prot =
                     [p \in Pages |->
                        IF /\ g_op[t].addr >= m_base_addr + p * PageSize
                           /\ g_op[t].addr < m_base_addr + (p + 1) * PageSize
                        THEN TRUE ELSE g_maps[m_base_addr].prot[p]]
               /\ g_maps'[m_base_addr].data = g_maps[m_base_addr].data
               /\ g_maps'[m_base_addr].mapped
               /\ \A c \in ArenaBases \ {m_base_addr} : g_maps'[c] = g_maps[c]
               /\ m_fault_count' = m_fault_count + 1
               /\ m_resident_pages' = m_resident_pages + 1
               /\ g_proc' = "alive"
               /\ g_pc'[t] = "access"
               /\ g_op'[t].addr = g_op[t].addr
               /\ g_op'[t].write = g_op[t].write
               /\ Accessible(g_maps', g_op[t].addr)]_vars
    /\ [](\A t \in Threads :
            (g_pc[t] = "access" /\ g_op[t].committed /\ m_running)
            => Accessible(g_maps, g_op[t].addr))

\* the worker's write faulted once, was committed and went through, after
\* the header's page had been committed by the bootstrap
C16_Witness ==
    /\ g_ret[WorkerThread].op = "write"
    /\ g_ret[WorkerThread].faults = 1
    /\ g_ret[WorkerThread].arg = m_base_addr + SelfTestOffset
    /\ m_fault_count = 2
    /\ m_resident_pages = 2
    /\ ArenaAt(m_base_addr)
    /\ ReadWord(g_maps, m_base_addr + SelfTestOffset) = g_ret[WorkerThread].val


\* C17: when the fault is outside [B, B + S), or the commit fails, the
\* handler commits nothing and leaves both counters as they were, resets the
\* disposition of that signal (and of no other) to the default and returns;
\* the thread does not resume its code after that: it never gets past the
\* faulting access while the process is alive.
C17_FailedFaultTerminates ==
    [][\A t \in Threads :
         /\ (HandlerStep(t) /\ ~g_op'[t].committed)
            => /\ g_maps' = g_maps
               /\ m_fault_count' = m_fault_count
               /\ m_resident_pages' = m_resident_pages
               /\ g_disp' = [g_disp EXCEPT ![g_op[t].sig] = "default"]
         /\ (HandlerStep(t) /\ ~(/\ g_op[t].addr >= m_base_addr
                                /\ g_op[t].addr < m_base_addr + GHOST_SPACE_SIZE
                                /\ m_base_addr # NullAddr))
            => ~g_op'[t].committed
         /\ (g_pc[t] = "access" /\ g_op[t].faults > 0 /\ ~g_op[t].committed)
            => ~(g_pc'[t] # "access" /\ g_proc' = "alive")]_vars


\* main's last call was an initialize() that reserved the arena and returned
\* success (a call that finds m_running set reserves nothing and records no
\* header address)
InitializedFresh ==
    /\ g_pc[MainThread] = "idle"
    /\ g_ret[MainThread].op = "initialize"
    /\ g_ret[MainThread].err = "None"
    /\ g_ret[MainThread].arg # NullAddr

\* C18: after a successful initialize() on a fresh reservation the header at
\* offset 0 holds magic = MAGIC, vector_count = 0 and head_offset =
\* sizeof(header), and the read of the header was the reservation's first
\* fault: it faulted once, the handler committed the header's page (both
\* counters one more than before the call) and no other page is committed.
C18_HeaderBootstrapped ==
    InitializedFresh =>
       LET b == g_ret[MainThread].arg IN
       /\ b \in ArenaBases
       /\ m_base_addr = b
       /\ m_running
       /\ g_maps[b].mapped
       /\ g_maps[b].data[MagicAt] = GHOST_MAGIC
       /\ g_maps[b].data[VectorCountAt] = 0
       /\ g_maps[b].data[HeadOffsetAt] = SizeofMemoryHeader
       /\ g_ret[MainThread].faults = 1
       /\ m_fault_count = g_ret[MainThread].fc0 + 1
       /\ m_resident_pages = g_ret[MainThread].rp0 + 1
       /\ \A p \in Pages : g_maps[b].prot[p] <=> (p = 0)

\* the first initialize() of the process has returned: one fault, one page
C18_Witness ==
    /\ InitializedFresh
    /\ m_fault_count = 1
    /\ m_resident_pages = 1
    /\ g_maps[m_base_addr].prot[0]
    /\ g_maps[m_base_addr].data[MagicAt] = GHOST_MAGIC


\* main's last call was a run_self_test() that returned
SelfTestDone ==
    /\ g_pc[MainThread] = "idle"
    /\ g_ret[MainThread].op = "run_self_test"

\* C19 as stated: after the arena is reserved and a value is written at
\* B + 512 GiB, reading it returns the value, and fault_count = 1 and
\* resident_pages = 1.
C19_AsStated ==
    SelfTestDone =>
       /\ g_ret[MainThread].val = SelfTestValue
       /\ m_fault_count = 1
       /\ m_resident_pages = 1

\* C19, amended: the arena is reserved by initialize(), whose read of the
\* header is the first fault; after a value is then written at B + 512 GiB,
\* reading it returns the value, the write has faulted at most once (once
\* when its page was not committed), both counters have grown by the faults
\* of the write, and on a first boot fault_count = 2 and resident_pages = 2.
C19_SelfTestIsSecondFault ==
    SelfTestDone =>
       /\ g_ret[MainThread].arg = m_base_addr + GHOST_SPACE_SIZE \div 2
       /\ g_ret[MainThread].val = SelfTestValue
       /\ ReadWord(g_maps, g_ret[MainThread].arg) = SelfTestValue
       /\ g_ret[MainThread].fc0 >= 1
       /\ g_ret[MainThread].rp0 >= 1
       /\ g_ret[MainThread].faults \in {0, 1}
       /\ m_fault_count = g_ret[MainThread].fc0 + g_ret[MainThread].faults
       /\ m_resident_pages = g_ret[MainThread].rp0 + g_ret[MainThread].faults
       /\ g_ret[MainThread].fc0 = 1
             => (m_fault_count = 2 /\ m_resident_pages = 2)

\* the self-test has run on a first boot: two faults, two pages
C19_Witness ==
    /\ SelfTestDone
    /\ g_ret[MainThread].val = SelfTestValue
    /\ g_ret[MainThread].faults = 1
    /\ m_fault_count = 2
    /\ m_resident_pages = 2


\* C20: get_ghost_ptr(offset) returns InvalidAccess for every offset >= S
\* (as a size_t) and, B being the base address of the reservation, B + offset
\* for every offset < S; the call changes nothing of the arena: no page is
\* committed, no word, counter, disposition or member changes.
C20_GhostPtr ==
    [][\A t \in Threads :
         GetGhostPtr(t)
         => /\ g_ret'[t].op = "get_ghost_ptr"
            /\ (g_ret'[t].arg < 0 \/ g_ret'[t].arg >= GHOST_SPACE_SIZE)
               => (g_ret'[t].err = "InvalidAccess" /\ g_ret'[t].val = 0)
            /\ (/\ g_ret'[t].arg >= 0
                /\ g_ret'[t].arg < GHOST_SPACE_SIZE
                /\ m_base_addr \in ArenaBases)
               => /\ g_ret'[t].err = "None"
                  /\ g_ret'[t].val = m_base_addr + g_ret'[t].arg
            /\ UNCHANGED <<m_base_addr, m_running, m_fault_count,
                           m_resident_pages, g_maps, g_disp, g_proc>>]_vars

\* main was given the address of the arena's last byte and the worker was
\* refused the offset S
C20_Witness ==
    /\ ArenaAt(m_base_addr)
    /\ g_ret[MainThread] =
          Ret("get_ghost_ptr", GHOST_SPACE_SIZE - 1, "None",
              m_base_addr + GHOST_SPACE_SIZE - 1)
    /\ g_ret[WorkerThread] =
          Ret("get_ghost_ptr", GHOST_SPACE_SIZE, "InvalidAccess", 0)


\* the value a completed read of thread t has returned to its code
ValueRead(t) ==
    IF g_op[t].kind = "user" THEN g_ret'[t].val ELSE g_op'[t].val

\* C21: between initialize and shutdown a committed page stays committed, a
\* word of the arena changes only by a write to it (an access that goes
\* through, or the bootstrap's write of the header) and then holds the value
\* written, and a read returns the word's value: the value last written
\* there, whatever faults on the same or on other pages came in between.
C21_CommittedDataPersists ==
    [][(m_running /\ m_running' /\ ArenaAt(m_base_addr))
       => /\ m_base_addr' = m_base_addr
          /\ g_maps'[m_base_addr].mapped
          /\ \A p \in Pages :
                g_maps[m_base_addr].prot[p] => g_maps'[m_base_addr].prot[p]
          /\ \A k \in ArenaWords :
                \/ g_maps'[m_base_addr].data[k] = g_maps[m_base_addr].data[k]
                \/ \E t \in Threads :
                      /\ g_pc[t] = "access"
                      /\ g_pc'[t] # "handler"
                      /\ g_op[t].write
                      /\ g_op[t].addr = m_base_addr + k
                      /\ g_maps[m_base_addr].prot[k \div PageSize]
                      /\ g_maps'[m_base_addr].data[k] = g_op[t].val
                \/ \E t \in Threads :
                      /\ g_pc[t] = "header"
                      /\ g_pc'[t] = "idle"
                      /\ k < SizeofMemoryHeader
          /\ \A t \in Threads :
                (/\ g_pc[t] = "access"
                 /\ ~g_op[t].write
                 /\ \/ g_pc'[t] \notin {"access", "handler"}
                    \/ g_op'[t].kind # g_op[t].kind)
                => /\ g_op[t].addr - m_base_addr \in ArenaWords
                   /\ ValueRead(t) =
                         g_maps[m_base_addr].data[g_op[t].addr - m_base_addr]
      ]_vars

\* main has read back the value written on the self-test's page, committed
\* by the second fault
C21_Witness ==
    /\ m_running
    /\ ArenaAt(m_base_addr)
    /\ g_ret[MainThread].op = "read"
    /\ g_ret[MainThread].arg = m_base_addr + SelfTestOffset
    /\ g_ret[MainThread].val \in UserValues
    /\ m_fault_count = 2


(***************************************************************************)
(*                  Properties of the running program                      *)
(***************************************************************************)

\* the word at offset k of the arena
ArenaWord(k) == g_maps[m_base_addr].data[k]

\* the first successful initialize has returned and shutdown has not run
Booted ==
    /\ m_running
    /\ ArenaAt(m_base_addr)
    /\ g_op[MainThread].kind # "hdr"

\* this step of thread t writes the header's magic
MagicWritten(t) ==
    \/ /\ g_pc[t] = "access"
       /\ g_op[t].write
       /\ g_op[t].addr = m_base_addr + MagicAt
       /\ Accessible(g_maps, g_op[t].addr)
       /\ g_pc'[t] # "access" \/ g_op'[t] # g_op[t]
    \/ /\ g_pc[t] = "header"
       /\ g_pc'[t] = "idle"
       /\ g_op[t].val # GHOST_MAGIC

\* C22: from the end of the first successful initialize until shutdown,
\* whatever appends and further initialize calls happen, the header's magic
\* is GHOST_MAGIC and no step writes it, vector_count does not decrease, and
\* head_offset is at least sizeof(MemoryHeader).
C22_HeaderStable ==
    [][(Booted /\ m_running')
       => /\ Booted'
          /\ m_base_addr' = m_base_addr
          /\ ArenaWord(MagicAt) = GHOST_MAGIC
          /\ ArenaWord(MagicAt)' = GHOST_MAGIC
          /\ \A t \in Threads : ~MagicWritten(t)
          /\ ArenaWord(VectorCountAt)' >= ArenaWord(VectorCountAt)
          /\ ArenaWord(HeadOffsetAt) >= SizeofMemoryHeader
          /\ ArenaWord(HeadOffsetAt)' >= SizeofMemoryHeader
      ]_vars

\* two records appended after the constructor's second initialize
C22_Witness ==
    /\ Booted
    /\ g_calls = Len(BootOrder)
    /\ ArenaWord(VectorCountAt) = 2
    /\ ArenaWord(HeadOffsetAt) = SizeofMemoryHeader + 2 * EntrySize

\* record i of the arena holds every word of one document
RecordComplete(i) ==
    \E d \in 1 .. w_docs :
       \A j \in 0 .. (EntrySize \div WordSize) - 1 :
          LET k == SizeofMemoryHeader + i * EntrySize + j * WordSize
          IN  k \in ArenaWords /\ ArenaWord(k) = RecordWord(d, j)

\* Update's read of vector_count completes in this step
CountRead ==
    /\ g_pc[MainThread] = "access"
    /\ g_op[MainThread].kind = "ui_cnt"
    /\ Accessible(g_maps, g_op[MainThread].addr)
    /\ g_op'[MainThread] # g_op[MainThread]

\* C23: the worker publishes the counter last.  While the arena is up, the
\* first vector_count records are completely written and head_offset is at
\* least sizeof(MemoryHeader) + vector_count * entry_size; the counter grows
\* by one at a time, as the last access of an append; and the count n the UI
\* thread reads is the counter's value, so the same holds of n.
C23_CounterPublishedLast ==
    /\ [](Booted
          => /\ \A i \in 0 .. ArenaWord(VectorCountAt) - 1 : RecordComplete(i)
             /\ ArenaWord(HeadOffsetAt) >=
                   SizeofMemoryHeader + ArenaWord(VectorCountAt) * EntrySize)
    /\ [][(Booted /\ m_running')
          => /\ ArenaWord(VectorCountAt)' # ArenaWord(VectorCountAt)
                => /\ ArenaWord(VectorCountAt)' = ArenaWord(VectorCountAt) + 1
                   /\ g_op[WorkerThread].kind = "pd_cnt"
                   /\ g_pc'[WorkerThread] = "idle"
                   /\ ArenaWord(HeadOffsetAt) = w_off + EntrySize
             /\ CountRead
                => /\ ui_seen' = ArenaWord(VectorCountAt)
                   /\ \A i \in 0 .. ui_seen' - 1 : RecordComplete(i)
                   /\ ArenaWord(HeadOffsetAt) >=
                         SizeofMemoryHeader + ui_seen' * EntrySize
         ]_vars

\* the UI thread has read a count of two while the arena is up
C23_Witness ==
    /\ Booted
    /\ ui_seen = 2
    /\ RecordComplete(1)


(***************************************************************************)
(*                   Properties of the fiber scheduler                     *)
(***************************************************************************)

\* the fiber whose stack the thread runs on
Executing == Owner(cpu_sp)

\* a step that is a call of Yield
YieldStep == Run \/ EntryYield \/ TrampLoop

\* Init and two spawned fibers whose entries append and yield five times
TwoByFive ==
    /\ Len(fibers) = 3
    /\ Len(tasks) = 2
    /\ \A i \in 1 .. 2 : tasks[i].iters = 5

\* C24: strict round robin.  Every Yield moves the index to (current + 1)
\* mod N and transfers control to the fiber at that index; and with Init and
\* two spawned fibers that each append their id and yield, five times, the
\* vector ends as 1,2,1,2,1,2,1,2,1,2.
C24_RoundRobin ==
    /\ [][YieldStep
          => /\ current_idx' = (current_idx + 1) % Len(fibers)
             /\ current_fiber' = fibers[current_idx' + 1].id
             /\ Executing' = fibers[current_idx' + 1].id
             /\ fibers[current_idx' + 1].id = current_idx'
         ]_vars
    /\ []((TwoByFive /\ \A i \in 1 .. 2 : fibers[i + 1].is_completed)
          => trace = <<1, 2, 1, 2, 1, 2, 1, 2, 1, 2>>)

\* the scenario has run to its end
C24_Witness ==
    /\ TwoByFive
    /\ \A i \in 1 .. 2 : fibers[i + 1].is_completed
    /\ trace = <<1, 2, 1, 2, 1, 2, 1, 2, 1, 2>>

\* C25: Yield preserves fiber identity.  The record of every fiber that is
\* not running holds the stack pointer of its most recent suspension (for a
\* fiber that never ran, the forged one), which is where its saved registers
\* lie; a switch loads exactly that pointer; a record's stack pointer is
\* written only in the step that switches its own fiber out; and Current()
\* is the fiber that is executing.
C25_YieldPreservesIdentity ==
    /\ [](fibers # << >> /\ cpu_pc # "exited"
          => /\ current_fiber = Executing
             /\ \A f \in 1 .. Len(fibers) - 1 :
                   f # Executing
                   => /\ fibers[f + 1].stack_ptr = susp_sp[f]
                      /\ susp_sp[f] = StackTop(f) - WordSize * Len(stacks[f])
             /\ Executing # 0 /\ fibers # << >>
                   => /\ fibers[1].stack_ptr = susp_sp[0]
                      /\ susp_sp[0] = StackTop(0) - WordSize * Len(stacks[0]))
    /\ [][/\ Executing' # Executing
             => /\ cpu_sp' - WordSize * (Len(stacks[Executing']) -
                                         Len(stacks'[Executing']))
                      = susp_sp[Executing']
                /\ susp_sp[Executing'] = fibers[Executing' + 1].stack_ptr
          /\ \A f \in 0 .. Len(fibers) - 1 :
                fibers'[f + 1].stack_ptr # fibers[f + 1].stack_ptr
                => /\ f = Executing
                   /\ Executing' # f
                   /\ fibers'[f + 1].stack_ptr = susp_sp'[f]
         ]_vars

\* fiber 1 runs again in its entry after it has yielded and two other
\* fibers have had their turn
C25_Witness ==
    /\ Len(fibers) = 3
    /\ Executing = 1
    /\ cpu_pc = "entry"
    /\ Len(trace) >= 3
    /\ susp_sp[1] # InitialSP(StackBase(1)) - WordSize * Len(ForgedFrame(0))

\* C26: for every spawned fiber the first switch into it enters S_Entry,
\* which calls the closure made for that fiber, once, and deletes it, once,
\* before the fiber is marked completed; a completed fiber stays in the ring
\* and, switched to, is in the loop that ends S_Entry, from which it only
\* yields: its closure is not called again and S_Entry does not return.
C26_TrampolineRunsEntryOnce ==
    /\ [](/\ cpu_pc # "wild"
          /\ \A i \in DOMAIN tasks :
                /\ tasks[i].fiber = i
                /\ tasks[i].calls <= 1
                /\ tasks[i].frees <= tasks[i].calls
                /\ fibers[i + 1].is_completed
                      => tasks[i].calls = 1 /\ tasks[i].frees = 1
                /\ (Executing = i /\ cpu_pc = "tramp") => tasks[i].frees = 1
                /\ (Executing = i /\ cpu_pc = "entry")
                      => tasks[i].calls = 1 /\ tasks[i].frees = 0
                             /\ frames[i].func = HeapArea + i)
    /\ [][/\ Len(fibers') >= Len(fibers)
          /\ \A f \in 1 .. Len(fibers) :
                /\ fibers[f].is_completed => fibers'[f].is_completed
                /\ fibers'[f].id = fibers[f].id
          /\ \A i \in DOMAIN tasks :
                /\ (Executing' = i /\ Executing # i /\ tasks[i].calls = 0)
                      => cpu_pc' = "S_Entry" /\ cpu_r12' = HeapArea + i
                /\ (Executing' = i /\ Executing # i /\ fibers[i + 1].is_completed)
                      => cpu_pc' = "tramp"
                /\ (Executing = i /\ cpu_pc = "tramp")
                      => /\ tasks' = tasks
                         /\ fibers'[i + 1].is_completed
         ]_vars

\* a completed fiber has been switched to again
C26_Witness ==
    /\ Len(fibers) = 3
    /\ \A i \in 1 .. 2 : fibers[i + 1].is_completed /\ tasks[i].iters > 0
    /\ Executing = 1
    /\ cpu_pc = "tramp"


\* shutdown has released the reservation at m_base_addr
Released == m_base_addr \in ArenaBases /\ ~g_maps[m_base_addr].mapped

\* C27: shutdown ordering, as claimed: the reservation is released only
\* after the worker thread has stopped, so in no reachable state of the
\* living process is it unmapped while the worker is in AnalysisWorker's
\* loop or inside ProcessDocument.
C27_ReleasedAfterWorkerStopped ==
    (g_proc = "alive" /\ Released) => w_pc \notin {"loop", "doc"}

\* C28: shutdown liveness, as claimed: once the UI fiber has read 'q' and
\* g_running is false, the UI fiber observes it, the scheduler loop ends, the
\* worker joins and the arena is released.
C28_QuitReleasesArena ==
    (g_proc = "alive" /\ ~g_running /\ u_pc \in {"main", "ui", "clip"})
        ~> (g_proc # "alive" \/ (ui_done /\ w_pc = "joined" /\ Released))


\* an Allocate call that returned the payload of a block it picked
AllocatePicked ==
    /\ s_calls' = s_calls + 1
    /\ s_last'.op = "alloc"
    /\ s_last'.ret # 0
    /\ ~s_wild'

\* the list with x replaced by y, and the list without x
Replaced(list, x, y) ==
    [i \in 1..Len(list) |-> IF list[i] = x THEN y ELSE list[i]]
Without(list, x) == SelectSeq(list, LAMBDA e : e # x)

\* C31: when Allocate picks a free block of size s for a required size r, it
\* splits exactly when s - r >= sizeof(header) + 64 + sizeof(footer): the
\* block becomes a used block of size r and the remainder a free block of
\* size s - r that stands in the free list where the block stood, the
\* other entries in their order; otherwise the block leaves the list and
\* becomes used with its size unchanged.
C31_SplitOrTakeWhole ==
    [][AllocatePicked =>
         \E curr \in {s_last'.ret - HeaderSize} :
         \E required \in {RequiredTotalSize(s_last'.n)} :
         \E remaining \in {GetSize(s_mem[curr]) - required} :
            IF remaining >= HeaderSize + MinSplitPayload + FooterSize
            THEN /\ s_mem'[curr] = SetWord(required, FALSE)
                 /\ s_mem'[curr + required] = SetWord(remaining, TRUE)
                 /\ FreeList' = Replaced(FreeList, curr, curr + required)
            ELSE /\ s_mem'[curr] = SetFreeWord(s_mem[curr], FALSE)
                 /\ FreeList' = Without(FreeList, curr)
      ]_vars


(***************************************************************************)
(*            Further properties of the ghost arena's pages                *)
(***************************************************************************)

\* the pages of the mapping at b that are accessible
CommittedPages(b) == {p \in Pages : g_maps[b].prot[p]}

\* C32: in every reachable state every accessible page lies in the
\* reservation [B, B + S) at m_base_addr; a page becomes accessible only in
\* a step of the fault handler for an address inside that page; and
\* directly after the reservation is made none of its pages is accessible.
C32_CommittedByFaultOnly ==
    /\ [](\A b \in ArenaBases :
             CommittedPages(b) # {} => (g_maps[b].mapped /\ m_base_addr = b))
    /\ [][/\ \A b \in ArenaBases : \A p \in CommittedPages(b)' \ CommittedPages(b) :
                \E t \in Threads :
                   /\ g_pc[t] = "handler"
                   /\ g_pc'[t] = "access"
                   /\ g_op[t].addr >= b + p * PageSize
                   /\ g_op[t].addr < b + (p + 1) * PageSize
          /\ \A b \in ArenaBases :
                (g_maps'[b].mapped /\ ~g_maps[b].mapped) => CommittedPages(b)' = {}
         ]_vars


(***************************************************************************)
(*              Further properties of the fiber scheduler                  *)
(***************************************************************************)

\* the pointer to the closure Spawn allocated for fiber id
TaskPtrOf(tks, id) ==
    HeapArea + (CHOOSE i \in DOMAIN tks : tks[i].fiber = id)

Zeros(n) == [i \in 1 .. n |-> 0]

\* C33: the frame Spawn forges is such that the restore sequence of the
\* context switch leaves the designated register (R12; X19 for the AArch64
\* frame) holding the pointer to the fiber's own closure, every other
\* callee-saved register zero and control at the trampoline S_Entry; the
\* stack pointer Spawn stores is the 16-byte aligned stack top minus the
\* frame's size and lies in [stack_base, stack_base + stack_size]; and the
\* first switch into the fiber arrives at S_Entry with that register.
C33_ForgedFrameRestores ==
    [][/\ (Len(fibers') = Len(fibers) + 1 /\ Len(fibers) >= 1) =>
             \E id \in {Len(fibers)} :
             \E f \in {fibers'[id + 1]} :
             \E task_ptr \in {TaskPtrOf(tasks', id)} :
             \E top \in {f.stack_base + f.stack_size} :
                /\ Len(tasks') = Len(tasks) + 1
                /\ Restore(stacks'[id]) =
                      [carrier |-> task_ptr, others |-> Zeros(5),
                       ret |-> CodeAddr("S_Entry"), size |-> WordSize * Len(stacks'[id])]
                /\ RestoreA64(ForgedFrameA64(task_ptr)) =
                      [carrier |-> task_ptr, others |-> Zeros(10),
                       ret |-> CodeAddr("S_Entry"),
                       size |-> WordSize * Len(ForgedFrameA64(task_ptr))]
                /\ f.stack_ptr = (top - (top % 16)) - Restore(stacks'[id]).size
                /\ f.stack_ptr % 16 = (16 - (Restore(stacks'[id]).size % 16)) % 16
                /\ f.stack_ptr >= f.stack_base
                /\ f.stack_ptr <= f.stack_base + f.stack_size
                /\ (top - (top % 16)) - RestoreA64(ForgedFrameA64(task_ptr)).size
                      >= f.stack_base
       /\ (cpu_pc # "S_Entry" /\ cpu_pc' = "S_Entry") =>
             \E id \in {Owner(cpu_sp')} :
                /\ id = current_fiber'
                /\ cpu_r12' = TaskPtrOf(tasks, id)
                /\ cpu_sp' = fibers[id + 1].stack_ptr + Restore(stacks[id]).size
                /\ cpu_sp' = StackTop(id)
                /\ stacks'[id] = << >>
      ]_vars

\* both fibers have been spawned and the second has been entered through
\* its forged frame
C33_Witness ==
    /\ Len(fibers) = MaxFibers + 1
    /\ cpu_pc = "S_Entry"
    /\ current_fiber = MaxFibers
    /\ cpu_r12 = TaskPtrOf(tasks, MaxFibers)


(***************************************************************************)
(*               Further properties of the SlabAllocator                   *)
(***************************************************************************)

\* the payload range [p, p + n) of a live allocation lies inside the heap; a
\* size of 2^63 or more (held as a negative residue) reaches past any heap
InsideHeap(a) ==
    /\ a.n >= 0
    /\ a.p >= FirstBlock + HeaderSize
    /\ a.p + a.n <= HeapEnd

\* the payload ranges of two live allocations have no byte in common
Disjoint(a, b) ==
    /\ a.n >= 0
    /\ b.n >= 0
    /\ a.p + a.n <= b.p \/ b.p + b.n <= a.p

\* the word at o has a byte inside the payload range of a
InPayload(o, a) == o + WordSize > a.p /\ (a.n < 0 \/ o < a.p + a.n)

\* C34: after any sequence of Allocate and Free calls the payload ranges
\* [p, p + n) of the allocations returned and not yet freed are pairwise
\* disjoint and inside the heap, no Allocate returns an offset that is still
\* live, and no call changes a word inside the payload range of a live
\* allocation other than the one being freed.
C34_LiveAllocationsUntouched ==
    /\ [](~s_wild /\ s_req # Unrecorded =>
            /\ \A a \in s_req : InsideHeap(a)
            /\ \A a, b \in s_req : a # b => Disjoint(a, b))
    /\ [][/\ AllocatePicked => s_last'.ret \notin s_live
          /\ \A a \in (s_req \cap s_req') \ Unrecorded :
                \A o \in DOMAIN s_mem :
                   InPayload(o, a) => s_mem'[o] = s_mem[o]
         ]_vars


\* FreeNode::prev_offset of the block at offset b
PrevOf(b) == Load([mem |-> s_mem], b + HeaderSize + PrevField)

\* C35: after any sequence of Allocate and Free calls the free list is a
\* well-formed doubly linked list: following next_offset from the head ends
\* in 0 without meeting a node twice, the head node's prev_offset is 0, and
\* every node that follows a node x has prev_offset x.
C35_FreeListWellFormed ==
    ~s_wild =>
        /\ \A i \in 1..Len(FreeList) : FreeList[i] # Broken
        /\ \A i, j \in 1..Len(FreeList) : FreeList[i] = FreeList[j] => i = j
        /\ Len(FreeList) > 0 => PrevOf(FreeList[1]) = 0
        /\ \A i \in 1..(Len(FreeList) - 1) :
              FreeList[i] # Broken /\ FreeList[i + 1] # Broken
                 => PrevOf(FreeList[i + 1]) = FreeList[i]


(***************************************************************************)
(*               Further properties of the ghost arena                     *)
(***************************************************************************)

\* the arena pages that are committed: the accessible pages of the
\* reservation at m_base_addr
ResidentSet ==
    IF m_base_addr \in ArenaBases THEN CommittedPages(m_base_addr) ELSE {}

\* C36: whenever no fault handler is in progress (the arena being in place),
\* resident_pages is the number of distinct arena pages that are committed
\* and fault_count equals resident_pages, also when the main thread and the
\* worker fault on the same uncommitted page at the same time.
C36_CountersMatchCommittedPages ==
    (g_proc = "alive" /\ m_running /\ \A t \in Threads : g_pc[t] # "handler") =>
        /\ m_resident_pages = Cardinality(ResidentSet)
        /\ m_fault_count = m_resident_pages


(***************************************************************************)
(*                  Properties of the input queue in use                   *)
(***************************************************************************)

\* Ingest has been called with text v and has returned
Ingested(v) == nextval > v /\ (p_pc = "idle" \/ p_item # v)

\* the worker has handed text v to ProcessDocument
Processed(v) == \E i \in 1..Len(popped) : popped[i] = v

\* C37: every non-empty text passed to Ingest while the processing unit runs
\* is eventually handed to ProcessDocument by the worker, exactly once and in
\* ingest order (the worker being scheduled fairly), however many texts are
\* ingested before the worker drains the queue.
C37_IngestedIsProcessed ==
    /\ [](\A i, j \in 1..Len(popped) : i < j => popped[i] < popped[j])
    /\ \A v \in 1..MaxPush : Ingested(v) ~> Processed(v)


(***************************************************************************)
(*          Properties of the ghost arena after shutdown and after         *)
(*                         a failed initialize                             *)
(***************************************************************************)

\* shutdown has released the reservation and initialize has not run since
ReservationReleased ==
    /\ ~m_running
    /\ m_base_addr \in ArenaBases
    /\ ~g_maps[m_base_addr].mapped

\* address a lies in the region the arena last occupied
InFormerRegion(a) == a >= m_base_addr /\ a < m_base_addr + GHOST_SPACE_SIZE

\* C38: after shutdown() has released the reservation, get_ghost_ptr returns
\* an error for every offset (never an address inside the released region), a
\* second shutdown() is a no-op, and a fault at an address of the former
\* region is not resumed as a successful commit.
C38_AfterShutdown ==
    [][ReservationReleased =>
         /\ \A t \in Threads :
               GetGhostPtr(t)
               => /\ g_ret'[t].err # "None"
                  /\ ~InFormerRegion(g_ret'[t].val)
         /\ Shutdown => UNCHANGED <<m_base_addr, m_running, m_fault_count,
                                    m_resident_pages, g_maps, g_disp, g_proc>>
         /\ \A t \in Threads :
               (Handler(t) /\ InFormerRegion(g_op[t].addr))
               => /\ ~g_op'[t].committed
                  /\ UNCHANGED <<m_fault_count, m_resident_pages, g_maps>>
      ]_vars


\* initialize() has returned an error in this step
InitializeFailed ==
    /\ InitializeCall
    /\ g_pc'[MainThread] = "idle"
    /\ g_ret'[MainThread].op = "initialize"
    /\ g_ret'[MainThread].err \in {"MemoryReservationFailed",
                                   "InitializationFailed"}

\* C40: if initialize() returns an error (the reservation or the installation
\* of the signal handlers failed), the arena is left exactly as before the
\* call: not running, holding no reservation, get_ghost_ptr returning an
\* error for every offset, and both counters unchanged.
C40_FailedInitializeLeavesNoTrace ==
    [][InitializeFailed =>
         /\ ~m_running'
         /\ m_base_addr' = m_base_addr
         /\ g_maps' = g_maps
         /\ \A offset \in PtrOffsets :
               get_ghost_ptr(m_base_addr', offset).err # "None"
         /\ UNCHANGED <<m_fault_count, m_resident_pages>>
      ]_vars


(***************************************************************************)
(*                  Properties of the appended records                     *)
(***************************************************************************)

\* the worker is about to write, or is writing, a word of a record
RecordWrite == g_pc[WorkerThread] = "access" /\ g_op[WorkerThread].kind = "pd_rec"

\* C39: every record append stays inside the arena.  Whatever the number of
\* records appended, head_offset + sizeof(record) <= S holds before each
\* write, the bytes ProcessDocument writes lie in [B + sizeof(header), B + S),
\* and head_offset is sizeof(header) + sizeof(record) * (the number of
\* completed appends): between two appends with vector_count as that
\* number, within an append at most one record ahead of it.
C39_AppendsStayInside ==
    Booted =>
       /\ RecordWrite =>
             /\ w_off + EntrySize <= GHOST_SPACE_SIZE
             /\ g_op[WorkerThread].addr >= m_base_addr + SizeofMemoryHeader
             /\ g_op[WorkerThread].addr + WordSize
                   <= m_base_addr + GHOST_SPACE_SIZE
       /\ w_pc # "doc" =>
             ArenaWord(HeadOffsetAt) =
                SizeofMemoryHeader + EntrySize * ArenaWord(VectorCountAt)
       /\ w_pc = "doc" =>
             \E n \in {ArenaWord(VectorCountAt), ArenaWord(VectorCountAt) + 1} :
                ArenaWord(HeadOffsetAt) = SizeofMemoryHeader + EntrySize * n

=============================================================================
